---- MODULE Spec2Model ----
(***************************************************************************)
(* Fishmill position state machine (src/src/position.cpp, position.h,      *)
(* types.h, movegen.cpp): board, counts, phase/action, the StateInfo       *)
(* stack and the incrementally maintained hash key.                        *)
(*                                                                         *)
(* Pieces, colours, phases and squares keep the numeric encodings of       *)
(* types.h because the code tests them with bit operations.  A 64-bit hash *)
(* key is modelled as [bits, misc]: `bits' is the set of Zobrist constants *)
(* XOR-ed into the low 62 bits (XOR of constants = symmetric difference of *)
(* sets), `misc' is the value of the two reserved top bits.                *)
(***************************************************************************)
EXTENDS Integers, Sequences, FiniteSets, TLC

VARIABLES rule, pos, last, snap, depth, input

vars == <<rule, pos, last, snap, depth, input>>

(***************************************************************************)
(* types.h                                                                 *)
(***************************************************************************)
NOCOLOR == 0
BLACK == 1
WHITE == 2
DRAW == 4
NOBODY == 8

PHASE_NONE == 0
PHASE_READY == 1
PHASE_PLACING == 2
PHASE_MOVING == 4
PHASE_GAMEOVER == 8
PHASE_NOTPLAYING == 9

ACTION_NONE == 0
ACTION_SELECT == 256
ACTION_PLACE == 512
ACTION_REMOVE == 1024

NO_REASON == 0
LOSE_REASON_LESS_THAN_THREE == 1
LOSE_REASON_NO_WAY == 2
LOSE_REASON_BOARD_IS_FULL == 3
LOSE_REASON_RESIGN == 4
DRAW_REASON_RULE_50 == 7
DRAW_REASON_BOARD_IS_FULL == 8

ALL_PIECES == 0
BAN == 3
PIECE_TYPE_NB == 4

NO_PIECE == 0
BAN_STONE == 15

SQ_0 == 0
SQ_BEGIN == 8
SQ_END == 32
SQUARE_NB == 40

MD_NB == 4
LD_NB == 3
FILE_NB == 3
RANK_NB == 8

MOVETYPE_PLACE == 0
MOVETYPE_MOVE == 1
MOVETYPE_REMOVE == 2

KEY_MISC_BIT == 2

Colors == {BLACK, WHITE}
AllSquares == 0 .. (SQUARE_NB - 1)

RECURSIVE BitAnd(_, _)
BitAnd(a, b) ==
    IF a = 0 \/ b = 0 THEN 0
    ELSE (a % 2) * (b % 2) + 2 * BitAnd(a \div 2, b \div 2)

Pow2(n) == IF n = 0 THEN 1 ELSE IF n = 1 THEN 2 ELSE 4

Min(a, b) == IF a < b THEN a ELSE b

(* F(v) with v computed once: v plays the part of a local variable of the  *)
(* code that later statements read several times.                          *)
With(v, F(_)) == CHOOSE y \in {F(z) : z \in {v}} : TRUE

(* constexpr Color operator~(Color c): c ^ 3 on the two colours *)
Opp(c) == (c \div 4) * 4 + (3 - (c % 4))

(* make_piece giving every piece the colour black *)
make_piece_black(c) == BLACK * 16

(* make_piece(Color c) == c << 4 *)
make_piece(c) == c * 16

(* color_of(Piece pc) == pc >> 4 (the assert is compiled out in release builds) *)
color_of(pc) == pc \div 16

(* from_sq(m) == m >> 8 (arithmetic shift) *)
from_sq(m) == IF m >= 0 THEN m \div 256 ELSE -(((-m) + 255) \div 256)

(* to_sq(m) == |m| & 0xFF *)
to_sq(m) == (IF m < 0 THEN -m ELSE m) % 256

(* type_of(Move m) *)
type_of(m) ==
    IF m < 0 THEN MOVETYPE_REMOVE
    ELSE IF BitAnd(m, 7936) # 0 THEN MOVETYPE_MOVE
    ELSE MOVETYPE_PLACE

make_move(from, to) == from * 256 + to

(* enum Move *)
MOVE_NONE == 0
MOVE_NULL == 65

(* constexpr bool is_ok(Move m) *)
is_ok(m) == from_sq(m) # to_sq(m)

(***************************************************************************)
(* Hash keys                                                               *)
(***************************************************************************)
ZeroKey == [bits |-> {}, misc |-> 0]

SymDiff(a, b) == (a \ b) \cup (b \ a)

(* k ^ Zobrist::psq[pt][s] *)
XorPsq(k, pt, s) == [k EXCEPT !.bits = SymDiff(@, {<<pt, s>>})]

(* k ^ Zobrist::side *)
XorSide(k) == [k EXCEPT !.bits = SymDiff(@, {<<-1, 0>>})]

(***************************************************************************)
(* Topology tables                                                         *)
(***************************************************************************)
onBoard(s) == IF s \in 8 .. 31 THEN 255 ELSE 0

millTable_noObliqueLine ==
    << <<<<16, 24>>, <<9, 15>>, <<0, 0>>>>,
       <<<<0, 0>>, <<15, 8>>, <<10, 11>>>>,
       <<<<18, 26>>, <<11, 9>>, <<0, 0>>>>,
       <<<<0, 0>>, <<9, 10>>, <<12, 13>>>>,
       <<<<20, 28>>, <<13, 11>>, <<0, 0>>>>,
       <<<<0, 0>>, <<11, 12>>, <<14, 15>>>>,
       <<<<22, 30>>, <<15, 13>>, <<0, 0>>>>,
       <<<<0, 0>>, <<13, 14>>, <<8, 9>>>>,
       <<<<8, 24>>, <<17, 23>>, <<0, 0>>>>,
       <<<<0, 0>>, <<23, 16>>, <<18, 19>>>>,
       <<<<10, 26>>, <<19, 17>>, <<0, 0>>>>,
       <<<<0, 0>>, <<17, 18>>, <<20, 21>>>>,
       <<<<12, 28>>, <<21, 19>>, <<0, 0>>>>,
       <<<<0, 0>>, <<19, 20>>, <<22, 23>>>>,
       <<<<14, 30>>, <<23, 21>>, <<0, 0>>>>,
       <<<<0, 0>>, <<21, 22>>, <<16, 17>>>>,
       <<<<8, 16>>, <<25, 31>>, <<0, 0>>>>,
       <<<<0, 0>>, <<31, 24>>, <<26, 27>>>>,
       <<<<10, 18>>, <<27, 25>>, <<0, 0>>>>,
       <<<<0, 0>>, <<25, 26>>, <<28, 29>>>>,
       <<<<12, 20>>, <<29, 27>>, <<0, 0>>>>,
       <<<<0, 0>>, <<27, 28>>, <<30, 31>>>>,
       <<<<14, 22>>, <<31, 29>>, <<0, 0>>>>,
       <<<<0, 0>>, <<29, 30>>, <<24, 25>>>> >>

millTable_hasObliqueLines ==
    << <<<<16, 24>>, <<9, 15>>, <<0, 0>>>>,
       <<<<17, 25>>, <<15, 8>>, <<10, 11>>>>,
       <<<<18, 26>>, <<11, 9>>, <<0, 0>>>>,
       <<<<19, 27>>, <<9, 10>>, <<12, 13>>>>,
       <<<<20, 28>>, <<13, 11>>, <<0, 0>>>>,
       <<<<21, 29>>, <<11, 12>>, <<14, 15>>>>,
       <<<<22, 30>>, <<15, 13>>, <<0, 0>>>>,
       <<<<23, 31>>, <<13, 14>>, <<8, 9>>>>,
       <<<<8, 24>>, <<17, 23>>, <<0, 0>>>>,
       <<<<9, 25>>, <<23, 16>>, <<18, 19>>>>,
       <<<<10, 26>>, <<19, 17>>, <<0, 0>>>>,
       <<<<11, 27>>, <<17, 18>>, <<20, 21>>>>,
       <<<<12, 28>>, <<21, 19>>, <<0, 0>>>>,
       <<<<13, 29>>, <<19, 20>>, <<22, 23>>>>,
       <<<<14, 30>>, <<23, 21>>, <<0, 0>>>>,
       <<<<15, 31>>, <<21, 22>>, <<16, 17>>>>,
       <<<<8, 16>>, <<25, 31>>, <<0, 0>>>>,
       <<<<9, 17>>, <<31, 24>>, <<26, 27>>>>,
       <<<<10, 18>>, <<27, 25>>, <<0, 0>>>>,
       <<<<11, 19>>, <<25, 26>>, <<28, 29>>>>,
       <<<<12, 20>>, <<29, 27>>, <<0, 0>>>>,
       <<<<13, 21>>, <<27, 28>>, <<30, 31>>>>,
       <<<<14, 22>>, <<31, 29>>, <<0, 0>>>>,
       <<<<15, 23>>, <<29, 30>>, <<24, 25>>>> >>

(* create_mill_table() without the test of rule.hasObliqueLines: the table *)
(* with oblique lines is installed for every rule                           *)
millTable_obliqueAlways(r, s, l, k) ==
    IF s \in 8 .. 31
    THEN millTable_hasObliqueLines[s - 7][l + 1][k + 1]
    ELSE 0

(* millTable[s][l][k] as installed by create_mill_table() for the rule r;  *)
(* l in 0..2, k in 0..1; rows 0..7 and 32..39 are all zero                 *)
millTable(r, s, l, k) ==
    IF s \in 8 .. 31
    THEN IF r.hasObliqueLines
         THEN millTable_hasObliqueLines[s - 7][l + 1][k + 1]
         ELSE millTable_noObliqueLine[s - 7][l + 1][k + 1]
    ELSE 0

moveTable_obliqueLine ==
    << <<9, 15, 16, 0>>, <<17, 8, 10, 0>>, <<9, 11, 18, 0>>, <<19, 10, 12, 0>>,
       <<11, 13, 20, 0>>, <<21, 12, 14, 0>>, <<13, 15, 22, 0>>, <<23, 8, 14, 0>>,
       <<17, 23, 8, 24>>, <<9, 25, 16, 18>>, <<17, 19, 10, 26>>, <<11, 27, 18, 20>>,
       <<19, 21, 12, 28>>, <<13, 29, 20, 22>>, <<21, 23, 14, 30>>, <<15, 31, 16, 22>>,
       <<25, 31, 16, 0>>, <<17, 24, 26, 0>>, <<25, 27, 18, 0>>, <<19, 26, 28, 0>>,
       <<27, 29, 20, 0>>, <<21, 28, 30, 0>>, <<29, 31, 22, 0>>, <<23, 24, 30, 0>> >>

moveTable_noObliqueLine ==
    << <<16, 9, 15, 0>>, <<10, 8, 0, 0>>, <<18, 11, 9, 0>>, <<12, 10, 0, 0>>,
       <<20, 13, 11, 0>>, <<14, 12, 0, 0>>, <<22, 15, 13, 0>>, <<8, 14, 0, 0>>,
       <<8, 24, 17, 23>>, <<18, 16, 0, 0>>, <<10, 26, 19, 17>>, <<20, 18, 0, 0>>,
       <<12, 28, 21, 19>>, <<22, 20, 0, 0>>, <<14, 30, 23, 21>>, <<16, 22, 0, 0>>,
       <<16, 25, 31, 0>>, <<26, 24, 0, 0>>, <<18, 27, 25, 0>>, <<28, 26, 0, 0>>,
       <<20, 29, 27, 0>>, <<30, 28, 0, 0>>, <<22, 31, 29, 0>>, <<24, 30, 0, 0>> >>

(* create() without the test of rule->hasObliqueLines: the table with      *)
(* oblique lines is installed for every rule                                *)
moveTable_obliqueAlways(r, s, d) ==
    IF s \in 8 .. 31
    THEN moveTable_obliqueLine[s - 7][d + 1]
    ELSE 0

(* MoveList<LEGAL>::moveTable[s][d] as installed by create() for the rule r *)
moveTable(r, s, d) ==
    IF s \in 8 .. 31
    THEN IF r.hasObliqueLines
         THEN moveTable_obliqueLine[s - 7][d + 1]
         ELSE moveTable_noObliqueLine[s - 7][d + 1]
    ELSE 0

(***************************************************************************)
(* Position: a record with the data members of class Position.  The        *)
(* StateInfo objects linked through `previous' are the sequence p.st; the  *)
(* pointer Position::st designates its last element.  Clocks and the score *)
(* tally are left out: no operation modelled here reads them.              *)
(***************************************************************************)
Top(p) == p.st[Len(p.st)]

Key(p) == Top(p).key

SetKey(p, k) == [p EXCEPT !.st[Len(p.st)].key = k]

set_side_to_move(p, c) == [p EXCEPT !.sideToMove = c, !.them = Opp(c)]

(* change_side_to_move that flips the key but not the side *)
change_side_to_move_keyOnly(p) ==
    LET q == set_side_to_move(p, p.sideToMove)
    IN  SetKey(q, XorSide(Key(q)))

change_side_to_move(p) ==
    LET q == set_side_to_move(p, Opp(p.sideToMove))
    IN  SetKey(q, XorSide(Key(q)))

color_on(p, s) == color_of(p.board[s])

(* Bitboard Position::pieces(Color c) const *)
pieces(p, c) == p.byColorBB[c]

update_key(p, s) == SetKey(p, XorPsq(Key(p), color_on(p, s), s))

revert_key(p, s) == update_key(p, s)

(* st->key = st->key << 2 >> 2 | Key(pieceCountNeedRemove) << 62 *)
update_key_misc(p) ==
    SetKey(p, [Key(p) EXCEPT !.misc = p.pieceCountNeedRemove % Pow2(KEY_MISC_BIT)])

(* set_gameover that leaves the winner as it was *)
set_gameover_noWinner(p, w, reason) ==
    [p EXCEPT !.phase = PHASE_GAMEOVER, !.gameoverReason = reason]

set_gameover(p, w, reason) ==
    [p EXCEPT !.phase = PHASE_GAMEOVER, !.gameoverReason = reason, !.winner = w]

in_how_many_mills(p, s, c0, squareSelected) ==
    LET c == IF c0 = NOBODY THEN color_on(p, s) ELSE c0
        b == IF squareSelected # SQ_0
             THEN [p.board EXCEPT ![squareSelected] = NO_PIECE]
             ELSE p.board
    IN  Cardinality({l \in 0 .. (LD_NB - 1) :
            BitAnd(BitAnd(make_piece(c), b[millTable(rule, s, l, 0)]),
                   b[millTable(rule, s, l, 1)]) # 0})

(* add_mills leaving its loop at the first closed line *)
add_mills_firstOnly(p, s) ==
    LET m == color_on(p, s)
    IN  IF \E i \in 0 .. 2 :
              BitAnd(BitAnd(make_piece(m), p.board[millTable(rule, s, i, 0)]),
                     p.board[millTable(rule, s, i, 1)]) # 0
        THEN 1 ELSE 0

(* add_mills counting the three squares of every closed line *)
add_mills_perSquare(p, s) ==
    LET m == color_on(p, s)
    IN  3 * Cardinality({i \in 0 .. 2 :
            BitAnd(BitAnd(make_piece(m), p.board[millTable(rule, s, i, 0)]),
                   p.board[millTable(rule, s, i, 1)]) # 0})

add_mills(p, s) ==
    LET m == color_on(p, s)
    IN  Cardinality({i \in 0 .. 2 :
            BitAnd(BitAnd(make_piece(m), p.board[millTable(rule, s, i, 0)]),
                   p.board[millTable(rule, s, i, 1)]) # 0})

is_all_in_mills(p, c) ==
    \A i \in SQ_BEGIN .. (SQ_END - 1) :
        BitAnd(p.board[i], make_piece(c) % 256) # 0
            => in_how_many_mills(p, i, NOBODY, SQ_0) # 0

(* is_all_surrounded looking at the piece counts only *)
is_all_surrounded_fullOnly(p) ==
    p.pieceCountOnBoard[BLACK] + p.pieceCountOnBoard[WHITE] >= RANK_NB * FILE_NB

is_all_surrounded(p) ==
    IF p.pieceCountOnBoard[BLACK] + p.pieceCountOnBoard[WHITE] >= RANK_NB * FILE_NB
    THEN TRUE
    ELSE IF p.pieceCountOnBoard[p.sideToMove] <= rule.nPiecesAtLeast
            /\ rule.allowFlyWhenRemainThreePieces
    THEN FALSE
    ELSE \A s \in SQ_BEGIN .. (SQ_END - 1) :
            BitAnd(p.sideToMove, color_on(p, s)) # 0 =>
                \A d \in 0 .. (MD_NB - 1) :
                    ~(moveTable(rule, s, d) # 0 /\ p.board[moveTable(rule, s, d)] = 0)

(* remove_ban_stones leaving the board as it is *)
remove_ban_stones_none(p) == p

(* The squares are visited in increasing order; the effect on one square  *)
(* does not depend on the others.                                          *)
remove_ban_stones(p) ==
    LET bans == {s \in (1 * RANK_NB) .. (FILE_NB * RANK_NB + RANK_NB - 1) :
                    p.board[s] = BAN_STONE}
        k == Key(p)
    IN  SetKey([p EXCEPT
                  !.board = [s \in AllSquares |-> IF s \in bans THEN NO_PIECE ELSE @[s]],
                  !.byTypeBB[ALL_PIECES] = SymDiff(@, bans)],
               [k EXCEPT !.bits = SymDiff(@, {<<color_of(BAN_STONE), s>> : s \in bans})])

(* check_gameover_condition calling every full board a draw *)
check_gameover_condition_fullIsDraw(p) ==
    IF BitAnd(p.phase, PHASE_NOTPLAYING) # 0
    THEN [pos |-> p, ret |-> TRUE]
    ELSE IF rule.maxStepsLedToDraw > 0 /\ Top(p).rule50 > rule.maxStepsLedToDraw
    THEN [pos |-> [p EXCEPT !.winner = DRAW, !.phase = PHASE_GAMEOVER,
                            !.gameoverReason = DRAW_REASON_RULE_50],
          ret |-> TRUE]
    ELSE IF p.pieceCountOnBoard[BLACK] + p.pieceCountOnBoard[WHITE] >= RANK_NB * FILE_NB
    THEN [pos |-> set_gameover(p, DRAW, DRAW_REASON_BOARD_IS_FULL), ret |-> TRUE]
    ELSE IF p.phase = PHASE_MOVING /\ p.action = ACTION_SELECT /\ is_all_surrounded(p)
    THEN IF rule.isLoseButNotChangeSideWhenNoWay
         THEN [pos |-> set_gameover(p, Opp(p.sideToMove), LOSE_REASON_NO_WAY), ret |-> TRUE]
         ELSE [pos |-> change_side_to_move(p), ret |-> FALSE]
    ELSE [pos |-> p, ret |-> FALSE]

(* check_gameover_condition without the forced pass of a blocked side *)
check_gameover_condition_noPass(p) ==
    IF BitAnd(p.phase, PHASE_NOTPLAYING) # 0
    THEN [pos |-> p, ret |-> TRUE]
    ELSE IF rule.maxStepsLedToDraw > 0 /\ Top(p).rule50 > rule.maxStepsLedToDraw
    THEN [pos |-> [p EXCEPT !.winner = DRAW, !.phase = PHASE_GAMEOVER,
                            !.gameoverReason = DRAW_REASON_RULE_50],
          ret |-> TRUE]
    ELSE IF p.pieceCountOnBoard[BLACK] + p.pieceCountOnBoard[WHITE] >= RANK_NB * FILE_NB
    THEN [pos |-> IF rule.isBlackLosebutNotDrawWhenBoardFull
                  THEN set_gameover(p, WHITE, LOSE_REASON_BOARD_IS_FULL)
                  ELSE set_gameover(p, DRAW, DRAW_REASON_BOARD_IS_FULL),
          ret |-> TRUE]
    ELSE IF p.phase = PHASE_MOVING /\ p.action = ACTION_SELECT /\ is_all_surrounded(p)
            /\ rule.isLoseButNotChangeSideWhenNoWay
    THEN [pos |-> set_gameover(p, Opp(p.sideToMove), LOSE_REASON_NO_WAY), ret |-> TRUE]
    ELSE [pos |-> p, ret |-> FALSE]

(* check_gameover_condition() without the test for a side that cannot move *)
check_gameover_condition_noBlockedTest(p) ==
    IF BitAnd(p.phase, PHASE_NOTPLAYING) # 0
    THEN [pos |-> p, ret |-> TRUE]
    ELSE IF rule.maxStepsLedToDraw > 0 /\ Top(p).rule50 > rule.maxStepsLedToDraw
    THEN [pos |-> [p EXCEPT !.winner = DRAW, !.phase = PHASE_GAMEOVER,
                            !.gameoverReason = DRAW_REASON_RULE_50],
          ret |-> TRUE]
    ELSE IF p.pieceCountOnBoard[BLACK] + p.pieceCountOnBoard[WHITE] >= RANK_NB * FILE_NB
    THEN [pos |-> IF rule.isBlackLosebutNotDrawWhenBoardFull
                  THEN set_gameover(p, WHITE, LOSE_REASON_BOARD_IS_FULL)
                  ELSE set_gameover(p, DRAW, DRAW_REASON_BOARD_IS_FULL),
          ret |-> TRUE]
    ELSE [pos |-> p, ret |-> FALSE]

(* returns [pos, ret] *)
check_gameover_condition(p) ==
    IF BitAnd(p.phase, PHASE_NOTPLAYING) # 0
    THEN [pos |-> p, ret |-> TRUE]
    ELSE IF rule.maxStepsLedToDraw > 0 /\ Top(p).rule50 > rule.maxStepsLedToDraw
    THEN [pos |-> [p EXCEPT !.winner = DRAW, !.phase = PHASE_GAMEOVER,
                            !.gameoverReason = DRAW_REASON_RULE_50],
          ret |-> TRUE]
    ELSE IF p.pieceCountOnBoard[BLACK] + p.pieceCountOnBoard[WHITE] >= RANK_NB * FILE_NB
    THEN [pos |-> IF rule.isBlackLosebutNotDrawWhenBoardFull
                  THEN set_gameover(p, WHITE, LOSE_REASON_BOARD_IS_FULL)
                  ELSE set_gameover(p, DRAW, DRAW_REASON_BOARD_IS_FULL),
          ret |-> TRUE]
    ELSE IF p.phase = PHASE_MOVING /\ p.action = ACTION_SELECT /\ is_all_surrounded(p)
    THEN IF rule.isLoseButNotChangeSideWhenNoWay
         THEN [pos |-> set_gameover(p, Opp(p.sideToMove), LOSE_REASON_NO_WAY), ret |-> TRUE]
         ELSE [pos |-> change_side_to_move(p), ret |-> FALSE]
    ELSE [pos |-> p, ret |-> FALSE]

(* reset() returning at once whenever the phase is PHASE_READY *)
reset_readyShortcut(p) ==
    IF p.phase = PHASE_READY
    THEN [pos |-> p, ret |-> TRUE]
    ELSE LET q == set_side_to_move(
                    [p EXCEPT !.gamePly = 0,
                              !.st[Len(p.st)].rule50 = 0,
                              !.phase = PHASE_READY], BLACK)
         IN  [pos |-> [q EXCEPT !.action = ACTION_PLACE,
                                !.winner = NOBODY,
                                !.gameoverReason = NO_REASON,
                                !.board = [s \in AllSquares |-> NO_PIECE],
                                !.st[Len(p.st)].key = ZeroKey,
                                !.byTypeBB = [t \in 0 .. (PIECE_TYPE_NB - 1) |-> {}],
                                !.pieceCountOnBoard = [c \in Colors |-> 0],
                                !.pieceCountInHand =
                                    [c \in Colors |-> rule.nTotalPiecesEachSide],
                                !.pieceCountNeedRemove = 0,
                                !.currentSquare = SQ_0,
                                !.elapsedSeconds = [c \in Colors |-> 0]],
              ret |-> FALSE]

(* bool Position::reset(); returns [pos, ret].  The guard compares          *)
(* (elapsedSeconds[BLACK] == elapsedSeconds[WHITE]) with 0, as C++ parses it. *)
reset(p) ==
    IF p.phase = PHASE_READY
       /\ (IF p.elapsedSeconds[BLACK] = p.elapsedSeconds[WHITE] THEN 1 ELSE 0) = 0
    THEN [pos |-> p, ret |-> TRUE]
    ELSE LET q == set_side_to_move(
                    [p EXCEPT !.gamePly = 0,
                              !.st[Len(p.st)].rule50 = 0,
                              !.phase = PHASE_READY], BLACK)
         IN  [pos |-> [q EXCEPT !.action = ACTION_PLACE,
                                !.winner = NOBODY,
                                !.gameoverReason = NO_REASON,
                                !.board = [s \in AllSquares |-> NO_PIECE],
                                !.st[Len(p.st)].key = ZeroKey,
                                !.byTypeBB = [t \in 0 .. (PIECE_TYPE_NB - 1) |-> {}],
                                !.pieceCountOnBoard = [c \in Colors |-> 0],
                                !.pieceCountInHand =
                                    [c \in Colors |-> rule.nTotalPiecesEachSide],
                                !.pieceCountNeedRemove = 0,
                                !.currentSquare = SQ_0,
                                !.elapsedSeconds = [c \in Colors |-> 0]],
              ret |-> FALSE]

(* bool Position::start(); returns [pos, ret] *)
start(p0) ==
    LET p == [p0 EXCEPT !.gameoverReason = NO_REASON]
    IN  IF p.phase = PHASE_PLACING \/ p.phase = PHASE_MOVING
        THEN [pos |-> p, ret |-> FALSE]
        ELSE IF p.phase = PHASE_GAMEOVER
        THEN [pos |-> [reset(p).pos EXCEPT !.phase = PHASE_PLACING], ret |-> TRUE]
        ELSE IF p.phase = PHASE_READY
        THEN [pos |-> [p EXCEPT !.phase = PHASE_PLACING], ret |-> TRUE]
        ELSE [pos |-> p, ret |-> FALSE]

(* The placing branch with the mover keeping the move when Placing ends *)
put_piece_placing_moverFirst(p0, s) ==
    LET us == p0.sideToMove
        piece == ((make_piece(p0.sideToMove) + 1) + rule.nTotalPiecesEachSide
                    - p0.pieceCountInHand[us]) % 256
        p1 == [p0 EXCEPT !.pieceCountInHand[us] = @ - 1,
                         !.pieceCountOnBoard[us] = @ + 1,
                         !.board[s] = piece]
    IN
    With(update_key(p1, s), LAMBDA p2 :
    With([p2 EXCEPT !.byTypeBB[ALL_PIECES] = @ \cup {s},
                    !.byTypeBB[us] = @ \cup {s},
                    !.currentSquare = s], LAMBDA p3 :
    With(add_mills(p3, s), LAMBDA n :
        IF n = 0
        THEN IF p3.pieceCountInHand[BLACK] = 0 /\ p3.pieceCountInHand[WHITE] = 0
             THEN With(check_gameover_condition(p3), LAMBDA g1 :
                  IF g1.ret THEN [pos |-> g1.pos, ret |-> TRUE]
                  ELSE
                  With([g1.pos EXCEPT !.phase = PHASE_MOVING,
                                      !.action = ACTION_SELECT], LAMBDA p4 :
                  With(IF rule.hasBannedLocations
                       THEN remove_ban_stones(p4) ELSE p4, LAMBDA p5 :
                  With(p5, LAMBDA p6 :
                      [pos |-> check_gameover_condition(p6).pos, ret |-> TRUE]))))
             ELSE [pos |-> change_side_to_move(p3), ret |-> TRUE]
        ELSE [pos |-> [update_key_misc(
                          [p3 EXCEPT !.pieceCountNeedRemove =
                              IF rule.allowRemoveMultiPiecesWhenCloseMultiMill
                              THEN n ELSE 1])
                       EXCEPT !.action = ACTION_REMOVE],
              ret |-> TRUE])))

(* The placement branch of put_piece (phase == PHASE_PLACING) *)
put_piece_placing(p0, s) ==
    LET us == p0.sideToMove
        piece == ((make_piece(p0.sideToMove) + 1) + rule.nTotalPiecesEachSide
                    - p0.pieceCountInHand[us]) % 256
        p1 == [p0 EXCEPT !.pieceCountInHand[us] = @ - 1,
                         !.pieceCountOnBoard[us] = @ + 1,
                         !.board[s] = piece]
    IN
    With(update_key(p1, s), LAMBDA p2 :
    With([p2 EXCEPT !.byTypeBB[ALL_PIECES] = @ \cup {s},
                    !.byTypeBB[us] = @ \cup {s},
                    !.currentSquare = s], LAMBDA p3 :
    With(add_mills(p3, s), LAMBDA n :
        IF n = 0
        THEN IF p3.pieceCountInHand[BLACK] = 0 /\ p3.pieceCountInHand[WHITE] = 0
             THEN With(check_gameover_condition(p3), LAMBDA g1 :
                  IF g1.ret THEN [pos |-> g1.pos, ret |-> TRUE]
                  ELSE
                  With([g1.pos EXCEPT !.phase = PHASE_MOVING,
                                      !.action = ACTION_SELECT], LAMBDA p4 :
                  With(IF rule.hasBannedLocations
                       THEN remove_ban_stones(p4) ELSE p4, LAMBDA p5 :
                  With(IF ~rule.isDefenderMoveFirst
                       THEN change_side_to_move(p5) ELSE p5, LAMBDA p6 :
                      [pos |-> check_gameover_condition(p6).pos, ret |-> TRUE]))))
             ELSE [pos |-> change_side_to_move(p3), ret |-> TRUE]
        ELSE [pos |-> [update_key_misc(
                          [p3 EXCEPT !.pieceCountNeedRemove =
                              IF rule.allowRemoveMultiPiecesWhenCloseMultiMill
                              THEN n ELSE 1])
                       EXCEPT !.action = ACTION_REMOVE],
              ret |-> TRUE])))

(* The relocation branch of put_piece (phase == PHASE_MOVING) *)
put_piece_moving(p0, s) ==
    With(p0.sideToMove, LAMBDA us :
    With(check_gameover_condition(p0), LAMBDA g0 :
        IF g0.ret THEN [pos |-> g0.pos, ret |-> TRUE]
        ELSE
        With(g0.pos, LAMBDA p1 :
            IF (p1.pieceCountOnBoard[p1.sideToMove] > rule.nPiecesAtLeast
                \/ ~rule.allowFlyWhenRemainThreePieces)
               /\ ~(\E md \in 0 .. (MD_NB - 1) :
                       s = moveTable(rule, p1.currentSquare, md))
            THEN [pos |-> p1, ret |-> FALSE]
            ELSE
            With({p1.currentSquare} \cup {s}, LAMBDA fromTo :
            With([p1 EXCEPT !.byTypeBB[ALL_PIECES] = SymDiff(@, fromTo),
                            !.byTypeBB[us] = SymDiff(@, fromTo),
                            !.board[s] = p1.board[p1.currentSquare]], LAMBDA p2 :
            With(revert_key(update_key(p2, s), p2.currentSquare), LAMBDA p3 :
            With([p3 EXCEPT !.board[p3.currentSquare] = NO_PIECE,
                            !.currentSquare = s], LAMBDA p4 :
            With(add_mills(p4, s), LAMBDA n :
                IF n = 0
                THEN [pos |-> check_gameover_condition(
                                change_side_to_move(
                                  [p4 EXCEPT !.action = ACTION_SELECT])).pos,
                      ret |-> TRUE]
                ELSE [pos |-> [update_key_misc(
                                 [p4 EXCEPT !.pieceCountNeedRemove =
                                     IF rule.allowRemoveMultiPiecesWhenCloseMultiMill
                                     THEN n ELSE 1])
                               EXCEPT !.action = ACTION_REMOVE],
                      ret |-> TRUE]))))))))

(* put_piece without the call of start() in PHASE_READY *)
put_piece_noStart(p, s) ==
    IF p.phase = PHASE_GAMEOVER \/ p.action # ACTION_PLACE
       \/ onBoard(s) = 0 \/ p.board[s] # 0
    THEN [pos |-> p, ret |-> FALSE]
    ELSE IF p.phase = PHASE_PLACING THEN put_piece_placing(p, s)
    ELSE IF p.phase = PHASE_MOVING THEN put_piece_moving(p, s)
    ELSE [pos |-> p, ret |-> TRUE]

(* put_piece with the game started before the square is validated *)
put_piece_startFirst(p, s) ==
    With(IF p.phase = PHASE_READY THEN start(p).pos ELSE p, LAMBDA p1 :
        IF p1.phase = PHASE_GAMEOVER \/ p1.action # ACTION_PLACE
           \/ onBoard(s) = 0 \/ p1.board[s] # 0
        THEN [pos |-> p1, ret |-> FALSE]
        ELSE IF p1.phase = PHASE_PLACING THEN put_piece_placing(p1, s)
        ELSE IF p1.phase = PHASE_MOVING THEN put_piece_moving(p1, s)
        ELSE [pos |-> p1, ret |-> TRUE])

(* bool Position::put_piece(Square s); returns [pos, ret] *)
put_piece(p, s) ==
    IF p.phase = PHASE_GAMEOVER \/ p.action # ACTION_PLACE
       \/ onBoard(s) = 0 \/ p.board[s] # 0
    THEN [pos |-> p, ret |-> FALSE]
    ELSE With(IF p.phase = PHASE_READY THEN start(p).pos ELSE p, LAMBDA p1 :
             IF p1.phase = PHASE_PLACING THEN put_piece_placing(p1, s)
             ELSE IF p1.phase = PHASE_MOVING THEN put_piece_moving(p1, s)
             ELSE [pos |-> p1, ret |-> TRUE])

(* The early returns without the test of the piece's owner *)
remove_piece_rejected_anyOwner(p, s) ==
    \/ BitAnd(p.phase, PHASE_NOTPLAYING) # 0
    \/ p.action # ACTION_REMOVE
    \/ p.pieceCountNeedRemove <= 0
    \/ (~rule.allowRemovePieceInMill
            /\ in_how_many_mills(p, s, NOBODY, SQ_0) # 0
            /\ ~is_all_in_mills(p, Opp(p.sideToMove)))

(* The early returns without the exemption for an opponent whose pieces are *)
(* all in mills                                                             *)
remove_piece_rejected_noExemption(p, s) ==
    \/ BitAnd(p.phase, PHASE_NOTPLAYING) # 0
    \/ p.action # ACTION_REMOVE
    \/ p.pieceCountNeedRemove <= 0
    \/ BitAnd(make_piece(Opp(p.sideToMove)), p.board[s]) = 0
    \/ (~rule.allowRemovePieceInMill
            /\ in_how_many_mills(p, s, NOBODY, SQ_0) # 0)

(* The early returns of remove_piece: TRUE when the call is rejected *)
remove_piece_rejected(p, s) ==
    \/ BitAnd(p.phase, PHASE_NOTPLAYING) # 0
    \/ p.action # ACTION_REMOVE
    \/ p.pieceCountNeedRemove <= 0
    \/ BitAnd(make_piece(Opp(p.sideToMove)), p.board[s]) = 0
    \/ (~rule.allowRemovePieceInMill
            /\ in_how_many_mills(p, s, NOBODY, SQ_0) # 0
            /\ ~is_all_in_mills(p, Opp(p.sideToMove)))

(* bool Position::remove_piece(Square s); returns [pos, ret] *)
remove_piece(p, s) ==
    IF remove_piece_rejected(p, s) THEN [pos |-> p, ret |-> FALSE]
    ELSE
    With(revert_key(p, s), LAMBDA p1 :
    With(IF rule.hasBannedLocations /\ p1.phase = PHASE_PLACING
         THEN [update_key([p1 EXCEPT !.board[s] = BAN_STONE], s)
                 EXCEPT !.byTypeBB[p1.them] = SymDiff(@, {s}),
                        !.byTypeBB[BAN] = @ \cup {s}]
         ELSE [p1 EXCEPT !.board[s] = NO_PIECE,
                         !.byTypeBB[ALL_PIECES] = SymDiff(@, {s}),
                         !.byTypeBB[p1.them] = SymDiff(@, {s})], LAMBDA p2 :
    With([p2 EXCEPT !.pieceCountOnBoard[p2.them] = @ - 1], LAMBDA p3 :
        IF p3.pieceCountOnBoard[p3.them] + p3.pieceCountInHand[p3.them]
              < rule.nPiecesAtLeast
        THEN [pos |-> set_gameover(p3, p3.sideToMove, LOSE_REASON_LESS_THAN_THREE),
              ret |-> TRUE]
        ELSE
        With(update_key_misc([p3 EXCEPT !.currentSquare = SQ_0,
                                        !.pieceCountNeedRemove = @ - 1]), LAMBDA p4 :
            IF p4.pieceCountNeedRemove > 0 THEN [pos |-> p4, ret |-> TRUE]
            ELSE IF p4.phase = PHASE_PLACING
            THEN IF p4.pieceCountInHand[BLACK] = 0 /\ p4.pieceCountInHand[WHITE] = 0
                 THEN With([p4 EXCEPT !.phase = PHASE_MOVING,
                                      !.action = ACTION_SELECT], LAMBDA p5 :
                      With(IF rule.hasBannedLocations
                           THEN remove_ban_stones(p5) ELSE p5, LAMBDA p6 :
                      With(IF rule.isDefenderMoveFirst
                           THEN p6 ELSE change_side_to_move(p6), LAMBDA p7 :
                          [pos |-> check_gameover_condition(p7).pos, ret |-> TRUE])))
                 ELSE [pos |-> check_gameover_condition(
                                 change_side_to_move(
                                   [p4 EXCEPT !.action = ACTION_PLACE])).pos,
                       ret |-> TRUE]
            ELSE [pos |-> check_gameover_condition(
                            change_side_to_move(
                              [p4 EXCEPT !.action = ACTION_SELECT])).pos,
                  ret |-> TRUE]))))

(* bool Position::select_piece(Square s); returns [pos, ret] *)
select_piece(p, s) ==
    IF p.phase # PHASE_MOVING THEN [pos |-> p, ret |-> FALSE]
    ELSE IF p.action # ACTION_SELECT /\ p.action # ACTION_PLACE
    THEN [pos |-> p, ret |-> FALSE]
    ELSE IF BitAnd(p.board[s], make_piece(p.sideToMove)) # 0
    THEN [pos |-> [p EXCEPT !.currentSquare = s, !.action = ACTION_PLACE], ret |-> TRUE]
    ELSE [pos |-> p, ret |-> FALSE]

(* bool Position::move_piece(Square from, Square to); returns [pos, ret] *)
move_piece(p, from, to) ==
    With(select_piece(p, from), LAMBDA r :
        IF r.ret THEN put_piece(r.pos, to) ELSE [pos |-> p, ret |-> FALSE])

(* bool Position::resign(Color loser); returns [pos, ret] *)
resign(p, loser) ==
    IF BitAnd(p.phase, PHASE_NOTPLAYING) # 0 \/ p.phase = PHASE_NONE
    THEN [pos |-> p, ret |-> FALSE]
    ELSE [pos |-> set_gameover(p, Opp(loser), LOSE_REASON_RESIGN), ret |-> TRUE]

(* The backward scan without the sign for a repeated ancestor *)
RECURSIVE repetition_scan_unsigned(_, _, _)
repetition_scan_unsigned(st, i, end) ==
    LET n == Len(st)
    IN  IF i > end \/ n - i < 1 THEN 0
        ELSE IF st[n - i].key = st[n].key THEN i
        ELSE repetition_scan_unsigned(st, i + 2, end)

(* The backward scan of do_move: the ply distance i (4, 6, ..) of the first *)
(* ancestor with the key of the last StateInfo, negated when that ancestor  *)
(* is itself a repetition, or 0.  `st' is the StateInfo sequence.           *)
RECURSIVE repetition_scan(_, _, _)
repetition_scan(st, i, end) ==
    LET n == Len(st)
    IN  IF i > end \/ n - i < 1 THEN 0
        ELSE IF st[n - i].key = st[n].key
        THEN IF st[n - i].repetition # 0 THEN -i ELSE i
        ELSE repetition_scan(st, i + 2, end)

(* void Position::do_move(Move m, StateInfo &newSt); `newSt' is the caller's *)
(* object as it is on entry: only rule50 and pliesFromNull are copied into it *)
(* (memcpy up to offsetof(StateInfo, key)).  Returns [pos, ret], ret being    *)
(* the local `ret' of the function.                                          *)
do_move(p, m, newSt) ==
    With(type_of(m), LAMBDA mt :
    With([p EXCEPT !.st = Append(@, [rule50 |-> Top(p).rule50,
                                     pliesFromNull |-> Top(p).pliesFromNull,
                                     key |-> newSt.key,
                                     repetition |-> newSt.repetition])], LAMBDA p1 :
    With(IF mt = MOVETYPE_REMOVE
         THEN remove_piece([p1 EXCEPT !.st[Len(p1.st)].rule50 = 0], to_sq(m))
         ELSE IF mt = MOVETYPE_MOVE
         THEN move_piece(p1, from_sq(m), to_sq(m))
         ELSE put_piece(p1, to_sq(m)), LAMBDA r :
        IF ~r.ret THEN r
        ELSE
        With(Len(r.pos.st), LAMBDA n :
        With([r.pos EXCEPT !.gamePly = @ + 1,
                           !.st[n].rule50 = @ + 1,
                           !.st[n].pliesFromNull = @ + 1,
                           !.move = m], LAMBDA q1 :
        With(Min(q1.st[n].rule50, q1.st[n].pliesFromNull), LAMBDA end :
            [pos |-> [q1 EXCEPT !.st[n].repetition =
                         IF end >= 4 THEN repetition_scan(q1.st, 4, end) ELSE 0],
             ret |-> TRUE]))))))

(* void Position::undo_move(Move m); returns [pos, ret] *)
undo_move(p, m) ==
    With(type_of(m), LAMBDA mt :
    With(IF mt = MOVETYPE_REMOVE THEN put_piece(p, to_sq(-m))
         ELSE IF mt = MOVETYPE_MOVE
         THEN With(select_piece(p, to_sq(m)), LAMBDA sel :
                  IF sel.ret THEN put_piece(sel.pos, from_sq(m))
                  ELSE [pos |-> p, ret |-> FALSE])
         ELSE remove_piece(p, m), LAMBDA r :
        IF ~r.ret THEN r
        ELSE [pos |-> [r.pos EXCEPT !.st = SubSeq(@, 1, Len(@) - 1),
                                    !.gamePly = @ - 1],
              ret |-> TRUE]))

(***************************************************************************)
(* Move generation (movegen.cpp).  A move list is a sequence of Moves.     *)
(***************************************************************************)
Reverse(q) == [k \in 1 .. Len(q) |-> q[Len(q) + 1 - k]]

(* The initial value of MoveList<LEGAL>::movePriorityTable *)
movePriorityTable ==
    <<8, 9, 10, 11, 12, 13, 14, 15, 16, 17, 18, 19, 20, 21, 22, 23,
      24, 25, 26, 27, 28, 29, 30, 31>>

(* MoveList<LEGAL>::shuffle() for the rule r: the four groups, each in the *)
(* order std::shuffle left it in, copied one after the other into           *)
(* movePriorityTable.  o4 and o8 are the permutations of the indices of a   *)
(* group of four and of a group of eight (the identity when random moves    *)
(* are off); every call of std::shuffle gets a fresh engine with the same   *)
(* seed, so groups of the same size are permuted alike.                     *)
shuffle(r, o4, o8) ==
    LET nine == r.nTotalPiecesEachSide = 9
        movePriorityTable0 == IF nine THEN <<16, 18, 20, 22>> ELSE <<17, 19, 21, 23>>
        movePriorityTable1 == IF nine THEN <<24, 26, 28, 30, 8, 10, 12, 14>>
                              ELSE <<25, 27, 29, 31, 9, 11, 13, 15>>
        movePriorityTable2 == IF nine THEN <<17, 19, 21, 23>> ELSE <<16, 18, 20, 22>>
        movePriorityTable3 == IF nine THEN <<25, 27, 29, 31, 9, 11, 13, 15>>
                              ELSE <<24, 26, 28, 30, 8, 10, 12, 14>>
    IN  [k \in 1 .. 4 |-> movePriorityTable0[o4[k]]]
            \o [k \in 1 .. 8 |-> movePriorityTable1[o8[k]]]
            \o [k \in 1 .. 4 |-> movePriorityTable2[o4[k]]]
            \o [k \in 1 .. 8 |-> movePriorityTable3[o8[k]]]

(* The moves generate<LEGAL> emits for the selected piece on oldSquare *)
generate_destinations(p, oldSquare) ==
    IF p.pieceCountOnBoard[p.sideToMove] > rule.nPiecesAtLeast
       \/ ~rule.allowFlyWhenRemainThreePieces
    THEN LET near == SelectSeq([d \in 1 .. MD_NB |-> moveTable(rule, oldSquare, d - 1)],
                               LAMBDA newSquare :
                                   newSquare # 0 /\ p.board[newSquare] = 0)
         IN  [k \in 1 .. Len(near) |-> make_move(oldSquare, near[k])]
    ELSE LET free == SelectSeq([k \in 1 .. (SQ_END - SQ_BEGIN) |-> SQ_BEGIN + k - 1],
                               LAMBDA newSquare : p.board[newSquare] = 0)
         IN  [k \in 1 .. Len(free) |-> make_move(oldSquare, free[k])]

RECURSIVE generate_moving(_, _, _)

(* The loop handling only the first piece it can select *)
generate_moving_firstPieceOnly(p, table, i) ==
    IF i = 0 \/ p.action # ACTION_SELECT THEN [pos |-> p, moves |-> << >>]
    ELSE With(select_piece(p, table[i]), LAMBDA sel :
             IF ~sel.ret THEN generate_moving(sel.pos, table, i - 1)
             ELSE [pos |-> sel.pos,
                   moves |-> generate_destinations(sel.pos, table[i])])

(* The loop of the Moving branch over table[i], table[i - 1], .., table[1]; *)
(* pos.select_piece() is called on the position itself.  Returns            *)
(* [pos, moves].                                                            *)
generate_moving(p, table, i) ==
    IF i = 0 THEN [pos |-> p, moves |-> << >>]
    ELSE With(select_piece(p, table[i]), LAMBDA sel :
             IF ~sel.ret THEN generate_moving(sel.pos, table, i - 1)
             ELSE With(generate_moving(sel.pos, table, i - 1), LAMBDA rest :
                      [pos |-> rest.pos,
                       moves |-> generate_destinations(sel.pos, table[i])
                                     \o rest.moves]))

(* ExtMove *generate<LEGAL>(Position &pos, ExtMove *moveList) with the      *)
(* priority table `table'; returns [pos, moves]                             *)
generate(p, table) ==
    IF p.action = ACTION_SELECT \/ p.action = ACTION_PLACE
    THEN IF BitAnd(p.phase, PHASE_PLACING + PHASE_READY) # 0
         THEN [pos |-> p,
               moves |-> SelectSeq(table, LAMBDA i : p.board[i] = 0)]
         ELSE IF BitAnd(p.phase, PHASE_MOVING) # 0
         THEN generate_moving(p, table, Len(table))
         ELSE [pos |-> p, moves |-> << >>]
    ELSE IF p.action = ACTION_REMOVE
    THEN LET them == Opp(p.sideToMove)
             theirs == SelectSeq(Reverse(table), LAMBDA s :
                           BitAnd(p.board[s], make_piece(them)) # 0)
             sel == IF is_all_in_mills(p, them) THEN theirs
                    ELSE SelectSeq(theirs, LAMBDA s :
                             rule.allowRemovePieceInMill
                                 \/ in_how_many_mills(p, s, NOBODY, SQ_0) = 0)
         IN  [pos |-> p, moves |-> [k \in 1 .. Len(sel) |-> -sel[k]]]
    ELSE [pos |-> p, moves |-> << >>]

(***************************************************************************)
(* Rule configurations (struct Rule) and the position after reset()        *)
(***************************************************************************)
Rule(total, oblique, banned, defenderFirst, multi, inMill, fullLose, noWayLose, fly, maxSteps) ==
    [nTotalPiecesEachSide |-> total,
     nPiecesAtLeast |-> 3,
     hasObliqueLines |-> oblique,
     hasBannedLocations |-> banned,
     isDefenderMoveFirst |-> defenderFirst,
     allowRemoveMultiPiecesWhenCloseMultiMill |-> multi,
     allowRemovePieceInMill |-> inMill,
     isBlackLosebutNotDrawWhenBoardFull |-> fullLose,
     isLoseButNotChangeSideWhenNoWay |-> noWayLose,
     allowFlyWhenRemainThreePieces |-> fly,
     maxStepsLedToDraw |-> maxSteps]

(* The Position after set_position(r) and reset(), with a zeroed root StateInfo *)
StartPos(r) ==
    [board |-> [s \in AllSquares |-> NO_PIECE],
     byTypeBB |-> [t \in 0 .. (PIECE_TYPE_NB - 1) |-> {}],
     byColorBB |-> [c \in Colors |-> {}],
     pieceCountInHand |-> [c \in Colors |-> r.nTotalPiecesEachSide],
     pieceCountOnBoard |-> [c \in Colors |-> 0],
     pieceCountNeedRemove |-> 0,
     gamePly |-> 0,
     sideToMove |-> BLACK,
     them |-> WHITE,
     winner |-> NOBODY,
     gameoverReason |-> NO_REASON,
     phase |-> PHASE_READY,
     action |-> ACTION_PLACE,
     currentSquare |-> SQ_0,
     elapsedSeconds |-> [c \in Colors |-> 0],
     move |-> 0,
     st |-> << [rule50 |-> 0, pliesFromNull |-> 0, key |-> ZeroKey, repetition |-> 0] >>]

(***************************************************************************)
(* Callers.  A behaviour first replays a recorded game from the reset      *)
(* position with do_move, each move on a zeroed StateInfo (the value-      *)
(* initialised entries of the setup deque).  Then the environment calls    *)
(* the public operations with squares of the scenario's square set, at     *)
(* most MaxDepth position-changing calls deep (a take-back may be one     *)
(* more).                                                                  *)
(***************************************************************************)
MaxDepth == 2

ZeroSt == [key |-> ZeroKey, repetition |-> 0]

(* A StateInfo left over from an earlier search node: its key and          *)
(* repetition fields hold whatever that node wrote.                         *)
StaleSt == [key |-> [bits |-> {<<-2, 0>>}, misc |-> 3], repetition |-> 4]

(* What the caller's StateInfo object may hold when do_move receives it *)
NewStObjects == {ZeroSt, StaleSt}

RECURSIVE Times(_, _)
Times(ms, n) == IF n = 0 THEN << >> ELSE ms \o Times(ms, n - 1)

(* Eighteen placements that close no mill: black on 8 10 12 14 17 19 21 23 24 *)
Placements18 ==
    <<8, 9, 10, 11, 12, 13, 14, 15, 17, 16, 19, 18, 21, 20, 23, 22, 24, 25>>

(* Black 24-31, white 25-26 and back: the position recurs every four plies *)
Shuttle == <<make_move(24, 31), make_move(25, 26), make_move(31, 24), make_move(26, 25)>>

(* White closes the four lines of the outer ring while placing, then opens and *)
(* closes 15-8-9 twice; black is left with 27 29 31 and is to move             *)
ToThreePieces ==
    <<17, 8, 19, 9, 21, 15, -17, 23, 10, 25, 11, -19, 27, 12, 29, 13, -21,
      31, 14, -23, 22, 20,
      make_move(22, 23), make_move(8, 16), make_move(23, 22), make_move(16, 8), -22,
      make_move(25, 24), make_move(8, 16), make_move(24, 25), make_move(16, 8), -25>>

(* After ToThreePieces: white opens and closes 15-8-9 once more, so that a *)
(* removal is pending against black's last three pieces                    *)
MillAgainstThree ==
    <<make_move(31, 30), make_move(8, 16), make_move(30, 31), make_move(16, 8)>>

(* Black fills the outer ring, closing two lines at once with 25 and with 29 *)
(* (removing 12 and 13); white holds 16 18 20 22 and closes 9-10-11 with its  *)
(* last piece.  A removal is pending, both hands are empty, and black's outer *)
(* ring has no empty neighbour.  Without its last move white has one piece in *)
(* hand, and 12 and 13 are banned when the rule has banned locations.         *)
MillAtLastPlacement ==
    <<24, 16, 26, 18, 28, 20, 30, 22, 31, 12, 27, 13, 25, -12,
      10, 29, -13, 11, 8, 9>>

(* Twenty-two placements on the board with oblique lines that close no  *)
(* mill and leave 10 and 14 empty.  Black on 10 and white on 14 fill the  *)
(* board without a mill; black on 14 and white on 10 fill it with white   *)
(* closing 9-10-11.                                                       *)
Placements22 ==
    <<8, 9, 12, 11, 15, 13, 17, 16, 19, 18, 20, 21, 23, 22, 24, 25, 26, 27,
      29, 28, 30, 31>>

Scenario(r, setup, squares) == [rule |-> r, setup |-> setup, squares |-> squares]

Scenarios ==
    { Scenario(Rule(9, FALSE, FALSE, FALSE, FALSE, FALSE, TRUE, TRUE, FALSE, 50),
               << >>, {8, 9, 16, 0}),
      Scenario(Rule(9, FALSE, FALSE, FALSE, FALSE, FALSE, TRUE, TRUE, FALSE, 50),
               <<8, 16, 9, 24>>, {15, 16, 10, 0}),
      Scenario(Rule(12, TRUE, TRUE, TRUE, FALSE, TRUE, TRUE, TRUE, FALSE, 50),
               <<8, 16, 9, 24>>, {15, 16, 10, 24}),
      Scenario(Rule(9, FALSE, FALSE, FALSE, TRUE, TRUE, TRUE, TRUE, FALSE, 50),
               <<16, 10, 24, 11, 9, 12, 15, 20>>, {8, 10, 11, 13}),
      Scenario(Rule(9, FALSE, FALSE, FALSE, FALSE, TRUE, TRUE, TRUE, FALSE, 50),
               <<16, 10, 24, 11, 9, 12, 15, 20>>, {8, 10, 11, 13}),
      Scenario(Rule(9, FALSE, FALSE, FALSE, FALSE, FALSE, TRUE, TRUE, FALSE, 50),
               <<8, 17, 9, 18, 28, 19, -28>>, {15, 17, 18, 21}),
      Scenario(Rule(9, FALSE, FALSE, FALSE, FALSE, FALSE, TRUE, TRUE, FALSE, 50),
               <<8, 17, 9, 18, 28, 19, -28, 29, 21>>, {15, 17, 21, 10}),
      Scenario(Rule(9, FALSE, FALSE, FALSE, FALSE, FALSE, TRUE, TRUE, FALSE, 50),
               Placements18, {24, 31, 25, 26}),
      Scenario(Rule(9, FALSE, FALSE, FALSE, FALSE, FALSE, TRUE, TRUE, FALSE, 50),
               Placements18 \o Times(Shuttle, 8), {24, 31, 25, 26}),
      Scenario(Rule(9, FALSE, FALSE, FALSE, FALSE, FALSE, TRUE, TRUE, TRUE, 50),
               ToThreePieces, {31, 28, 24, 20}),
      Scenario(Rule(9, FALSE, FALSE, FALSE, FALSE, FALSE, TRUE, TRUE, FALSE, 50),
               ToThreePieces, {31, 28, 24, 20}),
      Scenario(Rule(9, FALSE, FALSE, FALSE, FALSE, FALSE, TRUE, TRUE, FALSE, 50),
               MillAtLastPlacement, {8, 9, 24, 17}),
      Scenario(Rule(9, FALSE, FALSE, FALSE, FALSE, FALSE, TRUE, FALSE, FALSE, 50),
               MillAtLastPlacement, {8, 9, 24, 17}),
      Scenario(Rule(9, FALSE, FALSE, TRUE, FALSE, FALSE, TRUE, TRUE, FALSE, 50),
               MillAtLastPlacement, {8, 9, 24, 17}),
      Scenario(Rule(9, FALSE, FALSE, FALSE, FALSE, FALSE, TRUE, TRUE, FALSE, 50),
               ToThreePieces \o MillAgainstThree, {27, 29, 31, 8}),
      Scenario(Rule(9, FALSE, TRUE, FALSE, FALSE, FALSE, TRUE, FALSE, FALSE, 50),
               SubSeq(MillAtLastPlacement, 1, 19), {9, 17, 12, 8}),
      Scenario(Rule(12, TRUE, TRUE, TRUE, FALSE, TRUE, TRUE, TRUE, FALSE, 50),
               Placements22, {10, 14, 8, 9}),
      Scenario(Rule(12, TRUE, TRUE, TRUE, FALSE, TRUE, FALSE, TRUE, FALSE, 50),
               Placements22, {10, 14, 8, 9}) }

(* The moves the environment passes to do_move *)
(* Orders std::shuffle may leave a group of four and a group of eight in *)
Orders4 == {<<1, 2, 3, 4>>, <<3, 1, 4, 2>>}
Orders8 == {<<1, 2, 3, 4, 5, 6, 7, 8>>, <<8, 7, 6, 5, 4, 3, 2, 1>>}

(* The values movePriorityTable may have: its initialiser, or what a call *)
(* of shuffle() under the rule r stored                                    *)
PriorityTables(r) ==
    {movePriorityTable}
        \cup {shuffle(r, o4, o8) : o4 \in Orders4, o8 \in Orders8}

Moves(squares) ==
    squares \cup {-s : s \in squares \ {0}}
        \cup {make_move(f, t) : f \in squares \ {0}, t \in squares \ {0}}

Call(op, arg, ret) == [op |-> op, arg |-> arg, ret |-> ret]

(* byColorBB has no initialiser and neither set_position nor reset writes  *)
(* it: it holds what the storage of the object held, zeros or the sets of  *)
(* an earlier object.  The games that start from the reset position are    *)
(* run with both.                                                          *)
ByColorBBAtStart(sc) ==
    {[c \in Colors |-> {}]}
        \cup (IF sc.setup = << >>
              THEN {[c \in Colors |-> IF c = BLACK THEN {8, 9} ELSE {16}]}
              ELSE {})

Init ==
    \E sc \in Scenarios :
      \E bb \in ByColorBBAtStart(sc) :
        /\ rule = sc.rule
        /\ input = [setup |-> sc.setup, squares |-> sc.squares]
        /\ pos = [StartPos(sc.rule) EXCEPT !.byColorBB = bb]
        /\ last = Call("init", 0, TRUE)
        /\ snap = pos
        /\ depth = 0

(* The next move of the recorded game; a game that was taken back is not *)
(* continued                                                              *)
Setup ==
    /\ input.setup # << >>
    /\ last.op # "undo_move"
    /\ LET r == do_move(pos, Head(input.setup), ZeroSt)
       IN  /\ pos' = r.pos
           /\ last' = Call("do_move", Head(input.setup), r.ret)
    /\ snap' = pos
    /\ input' = [input EXCEPT !.setup = Tail(@)]
    /\ UNCHANGED <<rule, depth>>

DoMove(m, newSt) ==
    /\ input.setup = << >>
    /\ depth < MaxDepth
    /\ LET r == do_move(pos, m, newSt)
       IN  /\ pos' = r.pos
           /\ last' = Call("do_move", m, r.ret)
    /\ snap' = pos
    /\ depth' = depth + 1
    /\ UNCHANGED <<rule, input>>

(* undo_move(m) right after the do_move(m) that made the move *)
UndoMove ==
    /\ last.op = "do_move" /\ last.ret
    /\ LET r == undo_move(pos, last.arg)
       IN  /\ pos' = r.pos
           /\ last' = Call("undo_move", last.arg, r.ret)
           /\ depth' = IF r.pos = pos THEN depth ELSE depth + 1
    /\ UNCHANGED <<rule, input, snap>>

(* A direct call of a public bool operation *)
Direct(op, arg, r) ==
    /\ input.setup = << >>
    /\ depth < MaxDepth
    /\ pos' = r.pos
    /\ last' = Call(op, arg, r.ret)
    /\ snap' = pos
    /\ depth' = IF r.pos = pos THEN depth ELSE depth + 1
    /\ UNCHANGED <<rule, input>>

PutPiece(s) == Direct("put_piece", s, put_piece(pos, s))

SelectPiece(s) == Direct("select_piece", s, select_piece(pos, s))

Resign(c) == Direct("resign", c, resign(pos, c))

(* generate<LEGAL>(pos, moveList): the list goes to the caller, the        *)
(* position keeps what select_piece did to it                              *)
Generate(table) ==
    Direct("generate", 0, [pos |-> generate(pos, table).pos, ret |-> TRUE])

Reset == Direct("reset", 0, reset(pos))

Start == Direct("start", 0, start(pos))

Next ==
    \/ Setup
    \/ \E m \in Moves(input.squares), newSt \in NewStObjects : DoMove(m, newSt)
    \/ UndoMove
    \/ \E s \in input.squares : PutPiece(s)
    \/ \E s \in input.squares : SelectPiece(s)
    \/ \E table \in PriorityTables(rule) : Generate(table)
    \/ \E c \in Colors : Resign(c)
    \/ Reset
    \/ Start

Spec == Init /\ [][Next]_vars

(***************************************************************************)
(* Properties                                                              *)
(***************************************************************************)
Playable == SQ_BEGIN .. (SQ_END - 1)

(* The fields a take-back has to restore *)
Restored(before, after) ==
    /\ after.board = before.board
    /\ after.pieceCountInHand = before.pieceCountInHand
    /\ after.pieceCountOnBoard = before.pieceCountOnBoard
    /\ after.pieceCountNeedRemove = before.pieceCountNeedRemove
    /\ after.phase = before.phase
    /\ after.action = before.action
    /\ after.sideToMove = before.sideToMove
    /\ after.gamePly = before.gamePly
    /\ after.st = before.st

(* C1: do_move(m) of a legal move followed immediately by undo_move(m)     *)
(* restores board, in-hand and on-board counts, pendingRemoval, phase,     *)
(* action, side to move, gamePly, the current StateInfo and the hash key   *)
(* to their values before do_move.                                         *)
C1_UndoRestores == last.op = "undo_move" => Restored(snap, pos)

(* The key computed from scratch: the constant of (occupant kind, square)  *)
(* for every occupied square, the side constant when White is to move (the *)
(* reset position, Black to move, has key 0), pendingRemoval in the two    *)
(* reserved bits.                                                          *)
ScratchKey(p) ==
    [bits |-> {<<color_on(p, s), s>> : s \in {q \in AllSquares : p.board[q] # NO_PIECE}}
                \cup (IF p.sideToMove = WHITE THEN {<<-1, 0>>} ELSE {}),
     misc |-> p.pieceCountNeedRemove % Pow2(KEY_MISC_BIT)]

(* C2: in every state reached from reset by successful do_move calls (the  *)
(* states with depth 0), st->key equals the key recomputed from scratch.   *)
C2_KeyIsScratchKey == depth = 0 => Key(pos) = ScratchKey(pos)

(* C3: whenever put_piece(s), select_piece(s) or remove_piece(s) returns   *)
(* false, no field of the position differs from its value before the call. *)
C3_RejectedLeavesUnchanged ==
    \A s \in AllSquares :
        /\ ~put_piece(pos, s).ret => put_piece(pos, s).pos = pos
        /\ ~select_piece(pos, s).ret => select_piece(pos, s).pos = pos
        /\ ~remove_piece(pos, s).ret => remove_piece(pos, s).pos = pos

(* C3 witness: a relocation to an empty square that is not adjacent to the *)
(* selected one has been rejected.                                         *)
C3_Witness ==
    /\ last.op = "put_piece" /\ ~last.ret
    /\ snap.phase = PHASE_MOVING /\ snap.action = ACTION_PLACE
    /\ last.arg \in Playable /\ snap.board[last.arg] = NO_PIECE
    /\ pos = snap

(* C4: a move_piece(from, to) that is rejected leaves the position         *)
(* unchanged; in particular action and currentSquare keep their values.    *)
C4_RejectedMoveLeavesUnchanged ==
    \A from \in input.squares, to \in input.squares :
        ~move_piece(pos, from, to).ret => move_piece(pos, from, to).pos = pos

(* The fields that stay as they are once the game is over *)
Frozen(before, after) ==
    /\ after.board = before.board
    /\ after.pieceCountInHand = before.pieceCountInHand
    /\ after.pieceCountOnBoard = before.pieceCountOnBoard
    /\ after.pieceCountNeedRemove = before.pieceCountNeedRemove
    /\ after.phase = before.phase
    /\ after.action = before.action
    /\ after.sideToMove = before.sideToMove
    /\ after.winner = before.winner
    /\ after.st = before.st

(* C5: once phase = GameOver, every put_piece, select_piece, move_piece,   *)
(* remove_piece, resign and do_move is rejected and leaves board, counts,  *)
(* pendingRemoval, phase, action, side to move, winner, the current        *)
(* StateInfo and the key unchanged.                                        *)
C5_GameOverAbsorbing ==
    pos.phase = PHASE_GAMEOVER =>
        /\ \A s \in input.squares :
              /\ ~put_piece(pos, s).ret /\ Frozen(pos, put_piece(pos, s).pos)
              /\ ~select_piece(pos, s).ret /\ Frozen(pos, select_piece(pos, s).pos)
              /\ ~remove_piece(pos, s).ret /\ Frozen(pos, remove_piece(pos, s).pos)
        /\ \A from \in input.squares, to \in input.squares :
              /\ ~move_piece(pos, from, to).ret
              /\ Frozen(pos, move_piece(pos, from, to).pos)
        /\ \A c \in Colors : ~resign(pos, c).ret /\ Frozen(pos, resign(pos, c).pos)
        /\ \A m \in Moves(input.squares), newSt \in NewStObjects :
              /\ ~do_move(pos, m, newSt).ret
              /\ Frozen(pos, do_move(pos, m, newSt).pos)

(* The number of mill lines through s whose two other squares hold pieces *)
(* of colour c on board b                                                 *)
ClosedLines(b, s, c) ==
    Cardinality({l \in 0 .. (LD_NB - 1) :
        /\ millTable(rule, s, l, 0) # 0
        /\ color_of(b[millTable(rule, s, l, 0)]) = c
        /\ color_of(b[millTable(rule, s, l, 1)]) = c})

(* The piece on s is part of a mill *)
InMill(b, s) == ClosedLines(b, s, color_of(b[s])) >= 1

(* What a successful put_piece on s owes when it closes n >= 1 lines *)
MillOwed(before, after, s) ==
    LET n == ClosedLines(after.board, s, before.sideToMove)
    IN  (/\ before.board[s] = NO_PIECE
         /\ color_of(after.board[s]) = before.sideToMove
         /\ n >= 1)
        => /\ after.action = ACTION_REMOVE
           /\ after.sideToMove = before.sideToMove
           /\ after.pieceCountNeedRemove =
                 IF rule.allowRemoveMultiPiecesWhenCloseMultiMill THEN n ELSE 1

(* C6: a successful put_piece (placement, or relocation of a selected     *)
(* piece) that leaves the piece on a square through which n >= 1 lines are *)
(* fully occupied by the mover sets action = Remove, keeps the side to     *)
(* move, and sets pendingRemoval to n under                                *)
(* allowRemoveMultiPiecesWhenCloseMultiMill and to 1 otherwise.  Checked   *)
(* for every call possible in the current position, directly or after a    *)
(* selection, and for the move do_move has just made.                      *)
C6_MillSetsRemove ==
    /\ \A P \in {pos} \cup {select_piece(pos, f).pos : f \in input.squares} :
          \A s \in Playable :
              put_piece(P, s).ret => MillOwed(P, put_piece(P, s).pos, s)
    /\ (last.op = "do_move" /\ last.ret /\ last.arg > 0)
          => MillOwed(snap, pos, to_sq(last.arg))

(* C6 witness: a placement has closed two lines at once and two removals  *)
(* are pending.                                                            *)
C6_Witness ==
    /\ last.op = "do_move" /\ last.ret /\ last.arg > 0
    /\ ClosedLines(pos.board, to_sq(last.arg), snap.sideToMove) = 2
    /\ pos.action = ACTION_REMOVE
    /\ pos.pieceCountNeedRemove = 2

(* C7: a successful placement in Placing that closes no mill while some   *)
(* piece is still in hand toggles the side to move and leaves action =     *)
(* Place, phase = Placing and pendingRemoval = 0.                          *)
C7_PlacementPassesTurn ==
    pos.phase = PHASE_PLACING =>
        \A s \in Playable :
            LET r == put_piece(pos, s)
            IN  (/\ r.ret
                 /\ ClosedLines(r.pos.board, s, pos.sideToMove) = 0
                 /\ r.pos.pieceCountInHand[BLACK] + r.pos.pieceCountInHand[WHITE] > 0)
                => /\ r.pos.sideToMove = Opp(pos.sideToMove)
                   /\ r.pos.action = ACTION_PLACE
                   /\ r.pos.phase = PHASE_PLACING
                   /\ r.pos.pieceCountNeedRemove = 0

(* C7 witness: such a placement has been made *)
C7_Witness ==
    /\ last.op = "do_move" /\ last.ret /\ type_of(last.arg) = MOVETYPE_PLACE
    /\ snap.phase = PHASE_PLACING
    /\ ClosedLines(pos.board, to_sq(last.arg), snap.sideToMove) = 0
    /\ pos.pieceCountInHand[BLACK] + pos.pieceCountInHand[WHITE] > 0
    /\ pos.sideToMove # snap.sideToMove

(* C8: remove_piece(s) succeeds only on a playable square holding a piece *)
(* of the opponent of the side to move: never on an empty or banned        *)
(* square, a square outside the playable set, or a piece of the side to    *)
(* move (s ranging over the Square enumeration).                           *)
C8_RemoveOnlyOpponent ==
    \A s \in AllSquares :
        remove_piece(pos, s).ret =>
            /\ s \in Playable
            /\ pos.board[s] # NO_PIECE /\ pos.board[s] # BAN_STONE
            /\ color_of(pos.board[s]) \in Colors
            /\ color_of(pos.board[s]) # pos.sideToMove

(* C8 witness: a removal has succeeded *)
C8_Witness ==
    /\ last.op = "do_move" /\ last.ret /\ type_of(last.arg) = MOVETYPE_REMOVE
    /\ color_of(snap.board[to_sq(last.arg)]) \in Colors \ {snap.sideToMove}
    /\ pos.board[to_sq(last.arg)] = NO_PIECE

(* Removing the mill-protected opponent pieces of position p: rejected     *)
(* while the opponent has a piece outside every mill, accepted otherwise   *)
MillProtection(p) ==
    LET opp == Opp(p.sideToMove)
        theirs == {s \in Playable : color_of(p.board[s]) = opp}
    IN  \A s \in theirs :
            InMill(p.board, s) =>
                IF \E t \in theirs : ~InMill(p.board, t)
                THEN ~remove_piece(p, s).ret
                ELSE remove_piece(p, s).ret

(* C9 as stated: with allowRemovePieceInMill = false, action = Remove and *)
(* pendingRemoval > 0, remove_piece on an opponent piece in a mill fails   *)
(* while the opponent has a piece outside every mill and succeeds when all *)
(* opponent pieces are in mills.                                           *)
C9_Original ==
    (/\ ~rule.allowRemovePieceInMill
     /\ pos.action = ACTION_REMOVE
     /\ pos.pieceCountNeedRemove > 0)
        => MillProtection(pos)

(* C9 amended: the same while the game is being played (phase Placing or  *)
(* Moving).                                                                *)
C9_MillProtection ==
    (/\ ~rule.allowRemovePieceInMill
     /\ pos.action = ACTION_REMOVE
     /\ pos.pieceCountNeedRemove > 0
     /\ pos.phase \in {PHASE_PLACING, PHASE_MOVING})
        => MillProtection(pos)

(* C9 witness: a piece in a mill has been removed from an opponent whose  *)
(* pieces were all in mills.                                               *)
C9_Witness ==
    /\ ~rule.allowRemovePieceInMill
    /\ last.op = "do_move" /\ last.ret /\ type_of(last.arg) = MOVETYPE_REMOVE
    /\ InMill(snap.board, to_sq(last.arg))
    /\ \A t \in Playable :
          color_of(snap.board[t]) = Opp(snap.sideToMove) => InMill(snap.board, t)
    /\ pos.board[to_sq(last.arg)] = NO_PIECE

(* C10: in Moving with a piece selected, put_piece(to) succeeds for every *)
(* empty playable square when flying applies (allowFlyWhenRemainThree-     *)
(* Pieces and on-board count of the mover <= nPiecesAtLeast); otherwise it *)
(* succeeds only for an empty moveTable neighbour of the selected square;  *)
(* and every successful call relocates the selected piece to `to'.         *)
C10_Relocation ==
    (/\ pos.phase = PHASE_MOVING
     /\ pos.action = ACTION_PLACE
     /\ color_of(pos.board[pos.currentSquare]) = pos.sideToMove)
    => LET flying == /\ rule.allowFlyWhenRemainThreePieces
                     /\ pos.pieceCountOnBoard[pos.sideToMove] <= rule.nPiecesAtLeast
       IN  \A to \in AllSquares :
             LET r == put_piece(pos, to)
             IN  /\ (flying /\ to \in Playable /\ pos.board[to] = NO_PIECE) => r.ret
                 /\ (~flying /\ r.ret)
                       => /\ pos.board[to] = NO_PIECE
                          /\ \E d \in 0 .. (MD_NB - 1) :
                                to # 0 /\ moveTable(rule, pos.currentSquare, d) = to
                 /\ r.ret => /\ r.pos.board[to] = pos.board[pos.currentSquare]
                             /\ r.pos.board[pos.currentSquare] = NO_PIECE

(* C11: with N = maxStepsLedToDraw > 0, once do_move has applied N       *)
(* consecutive successful plies with no removal (st->rule50 counts them), *)
(* the position is GameOver, drawn, with DRAW_REASON_RULE_50.             *)
C11_DrawAfterNPlies ==
    (/\ depth = 0
     /\ last.op = "do_move" /\ last.ret
     /\ rule.maxStepsLedToDraw > 0
     /\ Top(pos).rule50 >= rule.maxStepsLedToDraw)
    => /\ pos.phase = PHASE_GAMEOVER
       /\ pos.winner = DRAW
       /\ pos.gameoverReason = DRAW_REASON_RULE_50

(* Side c has a piece on the board b, and none of its pieces has an empty *)
(* moveTable neighbour                                                     *)
NoWay(b, c) ==
    \A s \in Playable :
        color_of(b[s]) = c =>
            \A d \in 0 .. (MD_NB - 1) :
                moveTable(rule, s, d) # 0 => b[moveTable(rule, s, d)] # NO_PIECE

(* C12 as stated: a successful remove_piece that brings pieceCountNeed-    *)
(* Remove to 0 with the game not over gives the move to the opponent of the *)
(* remover, with action Place in Placing and Select in Moving; while        *)
(* removals remain pending, side to move and action = Remove are unchanged. *)
C12_Original ==
    \A s \in AllSquares :
        LET r == remove_piece(pos, s)
        IN  (r.ret /\ r.pos.phase # PHASE_GAMEOVER) =>
                IF r.pos.pieceCountNeedRemove = 0
                THEN /\ r.pos.sideToMove = Opp(pos.sideToMove)
                     /\ r.pos.phase = PHASE_PLACING => r.pos.action = ACTION_PLACE
                     /\ r.pos.phase = PHASE_MOVING => r.pos.action = ACTION_SELECT
                ELSE /\ r.pos.sideToMove = pos.sideToMove
                     /\ r.pos.action = ACTION_REMOVE

(* C12 amended: as above, except that the remover keeps the move when the  *)
(* removal ends Placing under isDefenderMoveFirst, and that in Moving a     *)
(* side that gets the move but has no empty neighbour (and may not fly)     *)
(* passes it back when isLoseButNotChangeSideWhenNoWay is off.              *)
C12_TurnAfterRemoval ==
    \A s \in AllSquares :
        LET r == remove_piece(pos, s)
            first == IF pos.phase = PHASE_PLACING /\ r.pos.phase = PHASE_MOVING
                        /\ rule.isDefenderMoveFirst
                     THEN pos.sideToMove ELSE Opp(pos.sideToMove)
            mayFly == /\ rule.allowFlyWhenRemainThreePieces
                      /\ r.pos.pieceCountOnBoard[first] <= rule.nPiecesAtLeast
            passes == /\ r.pos.phase = PHASE_MOVING
                      /\ ~rule.isLoseButNotChangeSideWhenNoWay
                      /\ ~mayFly
                      /\ NoWay(r.pos.board, first)
        IN  (r.ret /\ r.pos.phase # PHASE_GAMEOVER) =>
                IF r.pos.pieceCountNeedRemove = 0
                THEN /\ r.pos.sideToMove = IF passes THEN Opp(first) ELSE first
                     /\ r.pos.phase = PHASE_PLACING => r.pos.action = ACTION_PLACE
                     /\ r.pos.phase = PHASE_MOVING => r.pos.action = ACTION_SELECT
                ELSE /\ r.pos.sideToMove = pos.sideToMove
                     /\ r.pos.action = ACTION_REMOVE

(* A removal through do_move ended Placing and the blocked opponent passed *)
(* the move back to the remover                                             *)
C12_Witness ==
    /\ last.op = "do_move" /\ last.ret /\ type_of(last.arg) = MOVETYPE_REMOVE
    /\ snap.phase = PHASE_PLACING /\ snap.pieceCountNeedRemove = 1
    /\ pos.phase = PHASE_MOVING /\ pos.action = ACTION_SELECT
    /\ pos.pieceCountNeedRemove = 0
    /\ ~rule.isDefenderMoveFirst
    /\ NoWay(pos.board, Opp(snap.sideToMove))
    /\ pos.sideToMove = snap.sideToMove

(* The recorded game of the shuttle scenario: 18 placements, 32 moves *)
ShuttleGame == Placements18 \o Times(Shuttle, 8)

(* The colour on every square after the first k plies of a game g that has *)
(* no removal (black makes the odd plies)                                   *)
RECURSIVE PlyBoard(_, _)
PlyBoard(g, k) ==
    IF k = 0 THEN [s \in AllSquares |-> NOCOLOR]
    ELSE With(PlyBoard(g, k - 1), LAMBDA b :
         With(IF k % 2 = 1 THEN BLACK ELSE WHITE, LAMBDA c :
             IF type_of(g[k]) = MOVETYPE_MOVE
             THEN [b EXCEPT ![from_sq(g[k])] = NOCOLOR, ![to_sq(g[k])] = c]
             ELSE [b EXCEPT ![to_sq(g[k])] = c]))

(* How often the position after ply n (board and side to move) has occurred *)
(* in Moving, ply n included; Moving begins after ply 18                     *)
Occurrences(n) ==
    Cardinality({k \in Len(Placements18) .. n :
                    k % 2 = n % 2 /\ PlyBoard(ShuttleGame, k) = PlyBoard(ShuttleGame, n)})

(* C13: while both sides shuttle a piece through do_move with no removal,  *)
(* st->repetition is positive at the ply where a position occurs for the    *)
(* second time and negative at the ply where it occurs for the third time.  *)
C13_ShuttleRepetition ==
    \A n \in (Len(Placements18) + 1) .. Len(ShuttleGame) :
        (/\ depth = 0
         /\ Len(pos.st) = n + 1
         /\ input.setup = SubSeq(ShuttleGame, n + 1, Len(ShuttleGame))
         /\ [s \in AllSquares |-> color_of(pos.board[s])] = PlyBoard(ShuttleGame, n))
        => /\ Occurrences(n) = 2 => Top(pos).repetition > 0
           /\ Occurrences(n) = 3 => Top(pos).repetition < 0

(* The position a new game starts from *)
Reinitialised(p) ==
    /\ \A s \in AllSquares : p.board[s] = NO_PIECE
    /\ \A c \in Colors : /\ p.pieceCountOnBoard[c] = 0
                         /\ p.pieceCountInHand[c] = rule.nTotalPiecesEachSide
    /\ p.pieceCountNeedRemove = 0
    /\ p.phase = PHASE_READY
    /\ p.action = ACTION_PLACE
    /\ p.sideToMove = BLACK
    /\ p.winner = NOBODY
    /\ Key(p) = ZeroKey
    /\ Top(p).rule50 = 0

(* C14: reset() called in any reachable state leaves the board empty, the *)
(* on-board counts 0, the in-hand counts nTotalPiecesEachSide, no removal  *)
(* pending, phase Ready, action Place, Black to move, no winner, and the   *)
(* hash key and st->rule50 zero.                                           *)
C14_ResetReinitialises ==
    /\ Reinitialised(reset(pos).pos)
    /\ last.op = "reset" => Reinitialised(pos)

(* reset() was called on a game in progress, in Moving with White to move *)
C14_Witness ==
    /\ last.op = "reset"
    /\ snap.phase = PHASE_MOVING
    /\ snap.sideToMove = WHITE
    /\ Key(snap) # ZeroKey
    /\ Top(snap).rule50 > 0
    /\ Reinitialised(pos)

(* C15: every call of reset() returns true, the calls that reinitialise a *)
(* game in progress or a finished game included.                          *)
C15_ResetReturnsTrue ==
    /\ reset(pos).ret
    /\ last.op = "reset" => last.ret

(* The state machine accepts the move m in the position p: put_piece for a *)
(* Place, move_piece with the piece relocated for a Move, remove_piece for  *)
(* a Remove                                                                 *)
Accepts(p, m) ==
    IF type_of(m) = MOVETYPE_REMOVE THEN remove_piece(p, to_sq(m)).ret
    ELSE IF type_of(m) = MOVETYPE_MOVE
    THEN With(move_piece(p, from_sq(m), to_sq(m)), LAMBDA r :
             /\ r.ret
             /\ r.pos.board[to_sq(m)] = p.board[from_sq(m)]
             /\ r.pos.board[from_sq(m)] = NO_PIECE)
    ELSE put_piece(p, to_sq(m)).ret

(* C16: while the game is not over, every move of the list generate<LEGAL> *)
(* produces is accepted by the state machine in the position generate       *)
(* returns with.                                                            *)
C16_GeneratedAreAccepted ==
    pos.phase # PHASE_GAMEOVER =>
        \A table \in PriorityTables(rule) :
            With(generate(pos, table), LAMBDA g :
                \A k \in 1 .. Len(g.moves) : Accepts(g.pos, g.moves[k]))

(* The moves of a move list, as a set *)
MoveSet(moves) == {moves[k] : k \in 1 .. Len(moves)}

(* The moves the state machine reports as accepted in the position p: a    *)
(* Place where placing is the operation (Ready, Placing), a Move, a Remove  *)
AcceptedMoves(p) ==
    {s \in Playable : BitAnd(p.phase, PHASE_PLACING + PHASE_READY) # 0
                        /\ put_piece(p, s).ret}
        \cup {make_move(from, to) : <<from, to>> \in
                {ft \in Playable \X Playable : move_piece(p, ft[1], ft[2]).ret}}
        \cup {-s : s \in {x \in Playable : remove_piece(p, x).ret}}

(* C17: while the game is not over, every Place, Move or Remove that       *)
(* put_piece, move_piece or remove_piece accepts is in the list             *)
(* generate<LEGAL> produces.                                                *)
C17_AcceptedAreGenerated ==
    pos.phase # PHASE_GAMEOVER =>
        With(AcceptedMoves(pos), LAMBDA accepted :
            \A table \in PriorityTables(rule) :
                accepted \subseteq MoveSet(generate(pos, table).moves))

(* Orderings of the 24 playable squares: the initial table, its reverse,  *)
(* and the tables shuffle() produces for 9 and for 12 pieces               *)
Orderings ==
    {movePriorityTable, Reverse(movePriorityTable)}
        \cup UNION {PriorityTables([nTotalPiecesEachSide |-> n]) : n \in {9, 12}}

(* C18: for any two orderings of movePriorityTable, generate<LEGAL> on the *)
(* same position produces the same set of moves, and as many of them.      *)
C18_OrderIndependent ==
    With(generate(pos, movePriorityTable).moves, LAMBDA ms :
        \A table \in Orderings :
            /\ MoveSet(generate(pos, table).moves) = MoveSet(ms)
            /\ Len(generate(pos, table).moves) = Len(ms))

(* Moves were generated in Moving, where two orderings give the same moves *)
(* in different orders                                                     *)
C18_Witness ==
    /\ last.op = "generate"
    /\ snap.phase = PHASE_MOVING
    /\ \E table \in PriorityTables(rule) :
          /\ generate(snap, table).moves # generate(snap, movePriorityTable).moves
          /\ MoveSet(generate(snap, table).moves)
                = MoveSet(generate(snap, movePriorityTable).moves)
          /\ Cardinality(MoveSet(generate(snap, table).moves)) > 2

(***************************************************************************)
(* The Move encoding on its own: a caller encodes one action, (Move)s for  *)
(* a placement on s, make_move(from, to) for a move, (Move)-s for a        *)
(* removal on s, or passes one of the two special values.  `last' holds    *)
(* the action and its encoding; the position is not touched.               *)
(***************************************************************************)
EncodingInit ==
    /\ rule = Rule(9, FALSE, FALSE, FALSE, FALSE, FALSE, TRUE, TRUE, FALSE, 50)
    /\ input = [setup |-> << >>, squares |-> {}]
    /\ pos = StartPos(rule)
    /\ snap = pos
    /\ depth = 0
    /\ last = Call("init", <<0, 0>>, MOVE_NONE)

Encoded(kind, from, to, m) ==
    /\ last' = Call(kind, <<from, to>>, m)
    /\ UNCHANGED <<rule, input, pos, snap, depth>>

EncodePlace(s) == Encoded("Place", 0, s, s)

EncodeMove(from, to) == from # to /\ Encoded("Move", from, to, make_move(from, to))

EncodeRemove(s) == Encoded("Remove", 0, s, -s)

EncodeSpecial(m) == Encoded("Special", 0, 0, m)

EncodingNext ==
    \/ \E s \in SQ_BEGIN .. (SQ_END - 1) : EncodePlace(s)
    \/ \E from \in SQ_BEGIN .. (SQ_END - 1), to \in SQ_BEGIN .. (SQ_END - 1) :
          EncodeMove(from, to)
    \/ \E s \in SQ_BEGIN .. (SQ_END - 1) : EncodeRemove(s)
    \/ \E m \in {MOVE_NONE, MOVE_NULL} : EncodeSpecial(m)

EncodingSpec == EncodingInit /\ [][EncodingNext]_vars

(* The encodings of all placements, moves and removals on playable squares *)
PlaceMoves == {s : s \in Playable}
RemoveMoves == {-s : s \in Playable}
MoveMoves == {make_move(ft[1], ft[2]) :
                 ft \in {x \in Playable \X Playable : x[1] # x[2]}}

(* C19: type_of, from_sq and to_sq recover (Place, s) from Move(s),        *)
(* (Move, from, to) from make_move(from, to) and (Remove, s) from Move(-s)  *)
(* for all playable squares; distinct actions have distinct encodings, none *)
(* of them MOVE_NONE; is_ok accepts all of them and rejects MOVE_NONE and   *)
(* MOVE_NULL.                                                               *)
C19_EncodingRoundTrip ==
    /\ last.op = "Place" =>
          /\ type_of(last.ret) = MOVETYPE_PLACE
          /\ to_sq(last.ret) = last.arg[2]
          /\ last.ret \notin RemoveMoves \cup MoveMoves
          /\ Cardinality({s \in Playable : s = last.ret}) = 1
    /\ last.op = "Move" =>
          /\ type_of(last.ret) = MOVETYPE_MOVE
          /\ from_sq(last.ret) = last.arg[1]
          /\ to_sq(last.ret) = last.arg[2]
          /\ last.ret \notin PlaceMoves \cup RemoveMoves
          /\ Cardinality({ft \in Playable \X Playable :
                              make_move(ft[1], ft[2]) = last.ret}) = 1
    /\ last.op = "Remove" =>
          /\ type_of(last.ret) = MOVETYPE_REMOVE
          /\ to_sq(last.ret) = last.arg[2]
          /\ last.ret \notin PlaceMoves \cup MoveMoves
          /\ Cardinality({s \in Playable : -s = last.ret}) = 1
    /\ last.op \in {"Place", "Move", "Remove"} =>
          last.ret # MOVE_NONE /\ is_ok(last.ret)
    /\ last.op = "Special" => ~is_ok(last.ret)

(* C20 as stated: after a successful remove_piece that leaves the opponent *)
(* fewer than nPiecesAtLeast pieces on the board, the game is over, won by  *)
(* the remover, with LOSE_REASON_LESS_THAN_THREE; in Placing and in Moving. *)
C20_Original ==
    \A s \in AllSquares :
        With(remove_piece(pos, s), LAMBDA r :
            (r.ret /\ r.pos.pieceCountOnBoard[Opp(pos.sideToMove)] < rule.nPiecesAtLeast)
            => /\ r.pos.phase = PHASE_GAMEOVER
               /\ r.pos.winner = pos.sideToMove
               /\ r.pos.gameoverReason = LOSE_REASON_LESS_THAN_THREE)

(* C20 amended: the pieces counted are those on the board and those still  *)
(* in hand; when their sum is below nPiecesAtLeast after a successful       *)
(* removal the game is over, won by the remover, with                       *)
(* LOSE_REASON_LESS_THAN_THREE, and otherwise the removal does not end the  *)
(* game for that reason.                                                    *)
C20_LossBelowMinimum ==
    \A s \in AllSquares :
        With(remove_piece(pos, s), LAMBDA r :
            r.ret =>
                IF r.pos.pieceCountOnBoard[Opp(pos.sideToMove)]
                     + r.pos.pieceCountInHand[Opp(pos.sideToMove)] < rule.nPiecesAtLeast
                THEN /\ r.pos.phase = PHASE_GAMEOVER
                     /\ r.pos.winner = pos.sideToMove
                     /\ r.pos.gameoverReason = LOSE_REASON_LESS_THAN_THREE
                ELSE r.pos.gameoverReason # LOSE_REASON_LESS_THAN_THREE)

(* A removal through do_move in Moving took the opponent from three pieces *)
(* to two and ended the game                                               *)
C20_Witness ==
    /\ last.op = "do_move" /\ last.ret /\ type_of(last.arg) = MOVETYPE_REMOVE
    /\ snap.phase = PHASE_MOVING
    /\ snap.pieceCountOnBoard[Opp(snap.sideToMove)] = rule.nPiecesAtLeast
    /\ pos.pieceCountOnBoard[Opp(snap.sideToMove)] = rule.nPiecesAtLeast - 1
    /\ pos.phase = PHASE_GAMEOVER
    /\ pos.winner = snap.sideToMove
    /\ pos.gameoverReason = LOSE_REASON_LESS_THAN_THREE

(***************************************************************************)
(* Two Position objects in one process                                     *)
(***************************************************************************)

(* The rules the second Position may be set up with *)
OtherRules ==
    { Rule(9, FALSE, FALSE, FALSE, FALSE, FALSE, TRUE, TRUE, FALSE, 50),
      Rule(12, TRUE, TRUE, TRUE, FALSE, TRUE, TRUE, TRUE, FALSE, 50) }

(* set_position(newRule) on a second Position object: rule, millTable and  *)
(* moveTable are not members of the object, so the call stores newRule and *)
(* the tables chosen by newRule.hasObliqueLines where the first object     *)
(* reads them; the fields it resets are those of the second object.        *)
OtherSetPosition(newRule) ==
    /\ input.setup = << >>
    /\ depth < MaxDepth
    /\ newRule.hasObliqueLines # rule.hasObliqueLines
    /\ rule' = newRule
    /\ last' = Call("other.set_position", 0, 0)
    /\ snap' = pos
    /\ depth' = depth + 1
    /\ UNCHANGED <<pos, input>>

TwoPositionsNext ==
    \/ Next
    \/ \E newRule \in OtherRules : OtherSetPosition(newRule)

TwoPositionsSpec == Init /\ [][TwoPositionsNext]_vars

(* C21: set_position on one Position never changes the mill detection or   *)
(* the adjacency table look-ups of another Position: for every square and  *)
(* colour in_how_many_mills gives the same count on the untouched object    *)
(* before and after the call, and every moveTable entry is the same.        *)
C21_InstancesIndependent ==
    [][last'.op = "other.set_position" =>
          /\ \A s \in Playable, c \in Colors :
                 in_how_many_mills(pos, s, c, SQ_0)' = in_how_many_mills(pos, s, c, SQ_0)
          /\ \A s \in Playable, d \in 0 .. (MD_NB - 1) :
                 moveTable(rule, s, d)' = moveTable(rule, s, d)]_vars

(* The loop of is_all_surrounded calls color_on(s) on an empty square: it  *)
(* visits the squares in increasing order and leaves at the first piece of *)
(* the side to move that has an empty neighbour.                           *)
is_all_surrounded_asserts(p) ==
    /\ p.pieceCountOnBoard[BLACK] + p.pieceCountOnBoard[WHITE] < RANK_NB * FILE_NB
    /\ ~(p.pieceCountOnBoard[p.sideToMove] <= rule.nPiecesAtLeast
            /\ rule.allowFlyWhenRemainThreePieces)
    /\ \E s \in SQ_BEGIN .. (SQ_END - 1) :
          /\ p.board[s] = NO_PIECE
          /\ \A t \in SQ_BEGIN .. (s - 1) :
                BitAnd(p.sideToMove, color_on(p, t)) # 0 =>
                    \A d \in 0 .. (MD_NB - 1) :
                        ~(moveTable(rule, t, d) # 0 /\ p.board[moveTable(rule, t, d)] = 0)

(* put_piece(s) gets past its early return and start() with a phase that  *)
(* is neither Placing nor Moving                                           *)
put_piece_asserts(p, s) ==
    /\ ~(p.phase = PHASE_GAMEOVER \/ p.action # ACTION_PLACE
            \/ onBoard(s) = 0 \/ p.board[s] # 0)
    /\ (IF p.phase = PHASE_READY THEN start(p).pos ELSE p).phase
            \notin {PHASE_PLACING, PHASE_MOVING}

(* C22: no assertion fires along legal sequences.  A successful put_piece, *)
(* remove_piece or move that ends in Moving with action Select and the game *)
(* going on has run is_all_surrounded on the position it leaves, and that   *)
(* run never calls color_of on an empty square; and no put_piece reaches    *)
(* the assert(0) branch.                                                    *)
C22_NoAssertionFires ==
    /\ (/\ last.op \in {"do_move", "put_piece"} /\ last.ret = TRUE
        /\ pos # snap
        /\ pos.phase = PHASE_MOVING /\ pos.action = ACTION_SELECT
        /\ ~is_all_surrounded(pos))
           => ~is_all_surrounded_asserts(pos)
    /\ \A s \in AllSquares : ~put_piece_asserts(pos, s)

C24_RelocationFrame ==
    (/\ pos.phase = PHASE_MOVING
     /\ pos.action = ACTION_PLACE
     /\ color_of(pos.board[pos.currentSquare]) = pos.sideToMove)
    => \A t \in Playable :
          With(put_piece(pos, t), LAMBDA r :
              r.ret =>
                  LET f == pos.currentSquare
                  IN  /\ r.pos.board[f] = NO_PIECE
                      /\ r.pos.board[t] = pos.board[f]
                      /\ \A u \in AllSquares \ {f, t} : r.pos.board[u] = pos.board[u]
                      /\ r.pos.pieceCountOnBoard = pos.pieceCountOnBoard
                      /\ r.pos.pieceCountInHand = pos.pieceCountInHand)

(* C25: banned squares exist only during placement.  A square gets its     *)
(* banned marker only from a removal made in Placing under hasBanned-       *)
(* Locations (snap is the position before that removal, also when the      *)
(* removal has been taken back since); put_piece on a banned square is rejected whoever is to move;  *)
(* and no square holds a banned marker while the phase is Moving.           *)
C25_BannedOnlyInPlacing ==
    /\ \A s \in AllSquares :
          (pos.board[s] = BAN_STONE /\ snap.board[s] # BAN_STONE) =>
              /\ rule.hasBannedLocations
              /\ last.op \in {"do_move", "undo_move"}
              /\ last.op = "do_move" => last.ret = TRUE
              /\ last.arg = -s
              /\ snap.phase = PHASE_PLACING
    /\ \A s \in AllSquares :
          pos.board[s] = BAN_STONE =>
              /\ ~put_piece(pos, s).ret
              /\ ~put_piece(set_side_to_move(pos, Opp(pos.sideToMove)), s).ret
    /\ pos.phase = PHASE_MOVING => \A s \in AllSquares : pos.board[s] # BAN_STONE

(* The removal that ends Placing has emptied the banned squares *)
C25_Witness ==
    /\ rule.hasBannedLocations
    /\ last.op = "do_move" /\ last.ret = TRUE /\ last.arg < 0
    /\ snap.phase = PHASE_PLACING /\ pos.phase = PHASE_MOVING
    /\ \E s \in Playable : snap.board[s] = BAN_STONE
    /\ \A s \in AllSquares : pos.board[s] # BAN_STONE

(* What C26 says about a call with result r made in the position p: if p   *)
(* is in Placing and the call succeeds without ending the game, the phase   *)
(* becomes Moving exactly when both hands are empty and no removal is       *)
(* pending, and then the action is Select and the side to move is the       *)
(* mover under isDefenderMoveFirst and the opponent otherwise.  With        *)
(* allowPass, a side that gets the move but is blocked hands it back when   *)
(* isLoseButNotChangeSideWhenNoWay is off.                                  *)
PlacingEnds(p, r, allowPass) ==
    (p.phase = PHASE_PLACING /\ r.ret /\ r.pos.phase # PHASE_GAMEOVER) =>
        LET done == /\ r.pos.pieceCountInHand[BLACK] = 0
                    /\ r.pos.pieceCountInHand[WHITE] = 0
                    /\ r.pos.pieceCountNeedRemove = 0
            first == IF rule.isDefenderMoveFirst
                     THEN p.sideToMove ELSE Opp(p.sideToMove)
            mayFly == /\ rule.allowFlyWhenRemainThreePieces
                      /\ r.pos.pieceCountOnBoard[first] <= rule.nPiecesAtLeast
            passes == /\ allowPass
                      /\ ~rule.isLoseButNotChangeSideWhenNoWay
                      /\ ~mayFly
                      /\ NoWay(r.pos.board, first)
        IN  /\ (r.pos.phase = PHASE_MOVING) <=> done
            /\ r.pos.phase = PHASE_MOVING =>
                  /\ r.pos.action = ACTION_SELECT
                  /\ r.pos.sideToMove = IF passes THEN Opp(first) ELSE first

(* C26 as stated: Placing ends exactly when both hands are empty and no    *)
(* removal is pending, with action Select and the side to move fixed by    *)
(* isDefenderMoveFirst alone; in Moving both hands are empty.              *)
C26_Original ==
    /\ \A s \in AllSquares :
          /\ PlacingEnds(pos, put_piece(pos, s), FALSE)
          /\ PlacingEnds(pos, remove_piece(pos, s), FALSE)
    /\ pos.phase = PHASE_MOVING =>
          pos.pieceCountInHand[BLACK] = 0 /\ pos.pieceCountInHand[WHITE] = 0

(* C26 amended: as above, except that a side that gets the first move of   *)
(* Moving without an empty neighbour (and without the right to fly) passes  *)
(* the move back when isLoseButNotChangeSideWhenNoWay is off.               *)
C26_PlacingToMoving ==
    /\ \A s \in AllSquares :
          /\ PlacingEnds(pos, put_piece(pos, s), TRUE)
          /\ PlacingEnds(pos, remove_piece(pos, s), TRUE)
    /\ pos.phase = PHASE_MOVING =>
          pos.pieceCountInHand[BLACK] = 0 /\ pos.pieceCountInHand[WHITE] = 0

(* The last pending removal has ended Placing under isDefenderMoveFirst and *)
(* the remover is to move                                                   *)
C26_Witness ==
    /\ rule.isDefenderMoveFirst
    /\ last.op = "do_move" /\ last.ret = TRUE /\ type_of(last.arg) = MOVETYPE_REMOVE
    /\ snap.phase = PHASE_PLACING
    /\ pos.phase = PHASE_MOVING /\ pos.action = ACTION_SELECT
    /\ pos.pieceCountInHand[BLACK] = 0 /\ pos.pieceCountInHand[WHITE] = 0
    /\ pos.sideToMove = snap.sideToMove

(* Side c may not fly and none of its pieces on the board of p has an      *)
(* empty moveTable neighbour                                               *)
Blocked(p, c) ==
    /\ ~(rule.allowFlyWhenRemainThreePieces
            /\ p.pieceCountOnBoard[c] <= rule.nPiecesAtLeast)
    /\ NoWay(p.board, c)

(* The positions a mutation may have produced before the terminal check    *)
(* that left q: q itself, q with the other side to move (the check passed  *)
(* the move), q still in Moving (the check ended the game)                 *)
BeforeCheck(q) ==
    {x \in {q, change_side_to_move(q),
            [q EXCEPT !.phase = PHASE_MOVING, !.winner = NOBODY,
                      !.gameoverReason = NO_REASON]} :
        check_gameover_condition(x).pos = q}

(* What C27 says about the position q a successful mutation returns with *)
NoWayOutcome(q) ==
    \A x \in BeforeCheck(q) :
        (/\ x.phase = PHASE_MOVING /\ x.action = ACTION_SELECT
         /\ Blocked(x, x.sideToMove))
        => IF rule.isLoseButNotChangeSideWhenNoWay
           THEN /\ q.phase = PHASE_GAMEOVER
                /\ q.winner = Opp(x.sideToMove)
                /\ q.gameoverReason = LOSE_REASON_NO_WAY
           ELSE /\ q.phase = PHASE_MOVING /\ q.action = ACTION_SELECT
                /\ q.sideToMove = Opp(x.sideToMove)
                /\ ~Blocked(q, q.sideToMove)
                /\ \E s \in Playable : color_of(q.board[s]) = q.sideToMove

(* C27: when a successful placement, relocation or removal would leave     *)
(* Moving with action Select and a side to move that cannot fly and has no *)
(* piece with an empty neighbour, then under isLoseButNotChangeSideWhenNo-  *)
(* Way the game is over and the opponent has won (LOSE_REASON_NO_WAY);      *)
(* otherwise the move passes to the opponent, the game goes on, and that    *)
(* side has a piece it can move.                                            *)
C27_NoWay ==
    \A s \in AllSquares :
        /\ With(put_piece(pos, s), LAMBDA r : r.ret => NoWayOutcome(r.pos))
        /\ With(remove_piece(pos, s), LAMBDA r : r.ret => NoWayOutcome(r.pos))

(* A removal has left the opponent without a move, and the game is lost *)
C27_Witness ==
    /\ rule.isLoseButNotChangeSideWhenNoWay
    /\ last.op = "do_move" /\ last.ret = TRUE /\ type_of(last.arg) = MOVETYPE_REMOVE
    /\ snap.phase # PHASE_GAMEOVER
    /\ pos.phase = PHASE_GAMEOVER
    /\ pos.gameoverReason = LOSE_REASON_NO_WAY
    /\ pos.winner = snap.sideToMove
    /\ Blocked(pos, Opp(snap.sideToMove))

(* All 24 playable squares are occupied by pieces *)
BoardFull(p) ==
    /\ p.pieceCountOnBoard[BLACK] + p.pieceCountOnBoard[WHITE] = RANK_NB * FILE_NB
    /\ \A s \in Playable : color_of(p.board[s]) \in Colors

(* The outcome of a full board: white wins under isBlackLosebutNotDraw-    *)
(* WhenBoardFull, otherwise the game is drawn                              *)
FullBoardOutcome(p) ==
    /\ p.phase = PHASE_GAMEOVER
    /\ IF rule.isBlackLosebutNotDrawWhenBoardFull
       THEN p.winner = WHITE
       ELSE p.winner = DRAW /\ p.gameoverReason = DRAW_REASON_BOARD_IS_FULL

(* C28 as stated: whenever a successful mutation leaves all 24 playable    *)
(* squares occupied by pieces, the game is over after it: white has won    *)
(* under isBlackLosebutNotDrawWhenBoardFull, otherwise it is a draw with   *)
(* DRAW_REASON_BOARD_IS_FULL.                                              *)
C28_Original ==
    \A s \in AllSquares :
        With(put_piece(pos, s), LAMBDA r :
            (r.ret /\ BoardFull(r.pos)) => FullBoardOutcome(r.pos))

(* C28 amended: as above, unless the placement that fills the board closes *)
(* a mill; then the removal is pending and the game goes on.               *)
C28_BoardFull ==
    \A s \in AllSquares :
        With(put_piece(pos, s), LAMBDA r :
            (r.ret /\ BoardFull(r.pos)) =>
                IF r.pos.pieceCountNeedRemove > 0
                THEN /\ r.pos.phase = PHASE_PLACING
                     /\ r.pos.action = ACTION_REMOVE
                     /\ r.pos.sideToMove = pos.sideToMove
                     /\ InMill(r.pos.board, s)
                ELSE FullBoardOutcome(r.pos))

(* The last placement has filled the board without a mill, and the game is *)
(* over                                                                    *)
C28_Witness ==
    /\ last.op \in {"put_piece", "do_move"} /\ last.ret = TRUE
    /\ snap.phase = PHASE_PLACING
    /\ ~BoardFull(snap) /\ BoardFull(pos)
    /\ pos.pieceCountNeedRemove = 0
    /\ pos.phase = PHASE_GAMEOVER

(* The even ply distances do_move has to compare: 4, 6, .. up to the       *)
(* smaller of rule50 and pliesFromNull of the current StateInfo            *)
ScanDistances(st) ==
    {d \in 4 .. Min(st[Len(st)].rule50, st[Len(st)].pliesFromNull) : d % 2 = 0}

(* C29: after a successful do_move, st->repetition is 0 when no ancestor   *)
(* StateInfo at an even distance d, 4 <= d <= min(rule50, pliesFromNull),  *)
(* has the key of the current one; otherwise its absolute value is the     *)
(* smallest such d and it is negative exactly when that ancestor's         *)
(* repetition is not 0.  Every distance scanned stays within the StateInfo *)
(* stack.                                                                  *)
C29_RepetitionField ==
    (last.op = "do_move" /\ last.ret = TRUE) =>
        LET st == pos.st
            n == Len(pos.st)
            same == {d \in ScanDistances(st) : n - d >= 1 /\ st[n - d].key = st[n].key}
            rep == st[n].repetition
        IN  /\ \A d \in ScanDistances(st) : n - d >= 1
            /\ same = {} => rep = 0
            /\ same # {} =>
                  \E d \in same :
                      /\ \A e \in same : d <= e
                      /\ rep \in {d, -d}
                      /\ (rep < 0) <=> (st[n - d].repetition # 0)

(* A do_move has come back to a position that was itself a repetition *)
C29_Witness ==
    /\ last.op = "do_move" /\ last.ret = TRUE
    /\ Top(pos).repetition = -4
    /\ Len(pos.st) > 8
    /\ pos.st[Len(pos.st) - 4].key = Top(pos).key
    /\ pos.st[Len(pos.st) - 4].repetition # 0

(* C30: do_move pushes exactly one StateInfo when the action succeeds and  *)
(* none when it is rejected: after a rejected do_move the StateInfo stack, *)
(* rule50, gamePly and the key are what they were before the call.         *)
C30_OneStateInfoPerPly ==
    last.op = "do_move" =>
        IF last.ret = TRUE
        THEN /\ Len(pos.st) = Len(snap.st) + 1
             /\ SubSeq(pos.st, 1, Len(snap.st)) = snap.st
        ELSE /\ pos.st = snap.st
             /\ Top(pos).rule50 = Top(snap).rule50
             /\ pos.gamePly = snap.gamePly
             /\ Key(pos) = Key(snap)

(* C31: after every successful do_move, st->rule50 is the number of        *)
(* consecutive successful non-removal actions since the most recent        *)
(* removal (or since reset): a successful Remove leaves it at 0, and any   *)
(* other successful move leaves it one above its value before the move.    *)
C31_Rule50Counts ==
    (last.op = "do_move" /\ last.ret = TRUE) =>
        IF type_of(last.arg) = MOVETYPE_REMOVE
        THEN Top(pos).rule50 = 0
        ELSE Top(pos).rule50 = Top(snap).rule50 + 1

(* Key Position::key_after(Move m) const *)
key_after(p, m) ==
    LET k == Key(p)
        s == to_sq(m)
        mt == type_of(m)
    IN  IF mt = MOVETYPE_REMOVE
        THEN XorSide(IF rule.hasBannedLocations /\ p.phase = PHASE_PLACING
                     THEN XorPsq(XorPsq(k, Opp(p.sideToMove), s), BAN, s)
                     ELSE XorPsq(k, Opp(p.sideToMove), s))
        ELSE XorSide(IF mt = MOVETYPE_MOVE
                     THEN XorPsq(XorPsq(k, p.sideToMove, s), p.sideToMove, from_sq(m))
                     ELSE XorPsq(k, p.sideToMove, s))

(* The move m is accepted in p with result r, the turn goes to the         *)
(* opponent, no removal is owed and the phase stays what it was            *)
TurnPasses(p, r) ==
    /\ r.ret
    /\ r.pos.sideToMove = Opp(p.sideToMove)
    /\ r.pos.pieceCountNeedRemove = 0
    /\ r.pos.phase = p.phase

(* m is of the kind the generator lists in the phase of p: a Place in      *)
(* Placing, a Move in Moving, a Remove where a removal is owed             *)
PhaseMove(p, m) ==
    \/ type_of(m) = MOVETYPE_PLACE /\ p.phase = PHASE_PLACING /\ p.action = ACTION_PLACE
    \/ type_of(m) = MOVETYPE_MOVE /\ p.phase = PHASE_MOVING
    \/ type_of(m) = MOVETYPE_REMOVE /\ p.action = ACTION_REMOVE

(* C32: for every legal Place, Move or Remove after which the turn passes  *)
(* to the opponent (no mill closed, same phase, no pass), key_after(m)     *)
(* taken before the move is the key() found after do_move(m), also for a   *)
(* removal in Placing under hasBannedLocations.                            *)
C32_KeyAfter ==
    \A m \in Moves(input.squares), newSt \in NewStObjects :
        With(do_move(pos, m, newSt), LAMBDA r :
            (PhaseMove(pos, m) /\ TurnPasses(pos, r))
                => key_after(pos, m) = Key(r.pos))

(* The squares of the board of p that hold a piece of colour c *)
SquaresOf(p, c) == {s \in Playable : p.board[s] # BAN_STONE /\ color_of(p.board[s]) = c}

(* The pieces of colour c that are in hand or on the board *)
InPlay(p, c) == p.pieceCountInHand[c] + p.pieceCountOnBoard[c]

(* C33: in every reachable state and for each colour c, pieceCountOnBoard  *)
(* [c] is the number of squares holding a piece of c, pieceCountInHand[c]  *)
(* is not negative, and hand + board + removed pieces of c make nTotal-    *)
(* PiecesEachSide: the pieces in play never exceed the total, a successful *)
(* placement, selection or relocation keeps them, and a successful removal *)
(* takes exactly one from the side not to move.                            *)
C33_PieceCounts ==
    /\ \A c \in Colors :
          /\ pos.pieceCountOnBoard[c] = Cardinality(SquaresOf(pos, c))
          /\ pos.pieceCountInHand[c] >= 0
          /\ InPlay(pos, c) <= rule.nTotalPiecesEachSide
    /\ \A s \in AllSquares, c \in Colors :
          /\ With(put_piece(pos, s), LAMBDA r :
                 r.ret => InPlay(r.pos, c) = InPlay(pos, c))
          /\ With(select_piece(pos, s), LAMBDA r :
                 r.ret => InPlay(r.pos, c) = InPlay(pos, c))
          /\ With(remove_piece(pos, s), LAMBDA r :
                 r.ret => InPlay(r.pos, c) =
                             InPlay(pos, c) - (IF c = Opp(pos.sideToMove) THEN 1 ELSE 0))
    /\ pos.phase = PHASE_READY =>
          \A c \in Colors : InPlay(pos, c) = rule.nTotalPiecesEachSide

(* A removal has been made: the victim has one piece less in play *)
C33_Witness ==
    /\ last.op = "do_move" /\ last.ret = TRUE /\ type_of(last.arg) = MOVETYPE_REMOVE
    /\ InPlay(pos, Opp(snap.sideToMove)) = InPlay(snap, Opp(snap.sideToMove)) - 1
    /\ InPlay(pos, Opp(snap.sideToMove)) < rule.nTotalPiecesEachSide
    /\ pos.pieceCountOnBoard[Opp(snap.sideToMove)]
          = Cardinality(SquaresOf(pos, Opp(snap.sideToMove)))

(* C34: in every reachable state the occupancy sets agree with the board:  *)
(* the all-pieces set is the set of non-empty squares, pieces(c) is the    *)
(* set of squares holding a piece of colour c, the sets of the two colours *)
(* are disjoint, and byTypeBB[BAN] is the set of squares holding a banned  *)
(* marker, also after remove_ban_stones.                                   *)
C34_OccupancySets ==
    /\ pos.byTypeBB[ALL_PIECES] = {s \in AllSquares : pos.board[s] # NO_PIECE}
    /\ \A c \in Colors : pieces(pos, c) = SquaresOf(pos, c)
    /\ pieces(pos, BLACK) \cap pieces(pos, WHITE) = {}
    /\ pos.byTypeBB[BAN] = {s \in AllSquares : pos.board[s] = BAN_STONE}

(***************************************************************************)
(* Topology tables: lines and adjacency                                    *)
(***************************************************************************)
(* The two topologies: the rule in force and the same rule with the        *)
(* oblique-lines flag the other way                                         *)
Topologies == {rule, [rule EXCEPT !.hasObliqueLines = ~ @]}

(* The other two squares millTable records for line l through s *)
OthersOf(r, s, l) == {millTable(r, s, l, 0), millTable(r, s, l, 1)}

(* The lines through s that are not the empty entry {0, 0} *)
LinesOf(r, s) == {l \in 0 .. (LD_NB - 1) : OthersOf(r, s, l) # {0}}

(* The ring of a playable square: 1 for 8..15, 2 for 16..23, 3 for 24..31 *)
RingOf(s) == s \div 8

(* C35: in both topologies every non-empty millTable[s][l] = {a, b} of a   *)
(* playable square s names two distinct playable squares other than s, and *)
(* the line is recorded again from a (others {s, b}) and from b (others     *)
(* {s, a}); unplayable squares have no lines; without oblique lines every   *)
(* line through an odd-numbered (corner) square stays within one ring.      *)
C35_MillTableLines ==
    \A r \in Topologies :
        /\ \A s \in Playable : \A l \in LinesOf(r, s) :
              LET a == millTable(r, s, l, 0)
                  b == millTable(r, s, l, 1)
              IN  /\ a # b /\ a # s /\ b # s
                  /\ a \in Playable /\ b \in Playable
                  /\ \E la \in LinesOf(r, a) : OthersOf(r, a, la) = {s, b}
                  /\ \E lb \in LinesOf(r, b) : OthersOf(r, b, lb) = {s, a}
        /\ \A s \in AllSquares \ Playable : LinesOf(r, s) = {}
        /\ ~r.hasObliqueLines =>
              \A s \in Playable : \A l \in LinesOf(r, s) :
                  s % 2 = 1 =>
                      \A t \in OthersOf(r, s, l) : RingOf(t) = RingOf(s)

(* A mill has just been closed along a ring of a board without oblique     *)
(* lines: the placement found in millTable a line that runs through a       *)
(* corner square, and its three squares hold the mover's pieces             *)
C35_Witness ==
    /\ ~rule.hasObliqueLines
    /\ last.op = "do_move" /\ last.ret = TRUE
    /\ type_of(last.arg) = MOVETYPE_PLACE
    /\ pos.action = ACTION_REMOVE
    /\ \E l \in LinesOf(rule, to_sq(last.arg)) :
          /\ \E t \in OthersOf(rule, to_sq(last.arg), l) \cup {to_sq(last.arg)} :
                t % 2 = 1
          /\ \A t \in OthersOf(rule, to_sq(last.arg), l) :
                color_on(pos, t) = color_on(pos, to_sq(last.arg))

(* The squares moveTable lists for s, and the number of its entries that   *)
(* are not "none"                                                           *)
NeighboursOf(r, s) == {moveTable(r, s, d) : d \in 0 .. (MD_NB - 1)} \ {0}

EntriesOf(r, s) == Cardinality({d \in 0 .. (MD_NB - 1) : moveTable(r, s, d) # 0})

(* The two squares next to s on its own ring: 15 is followed by 8, 23 by   *)
(* 16 and 31 by 24                                                          *)
RingNeighbours(s) ==
    {8 * RingOf(s) + ((s + 7) % 8), 8 * RingOf(s) + ((s + 1) % 8)}

(* C36: in both topologies moveTable is symmetric on the playable squares, *)
(* its entries are playable squares or none, no square lists itself or a    *)
(* neighbour twice, unplayable squares list nothing, without oblique lines  *)
(* an odd-numbered (corner) square lists exactly its two ring neighbours,   *)
(* and the three squares of every millTable line are consecutive            *)
(* neighbours: one of them is adjacent to both others.                      *)
C36_MoveTableAdjacency ==
    \A r \in Topologies :
        /\ \A s \in Playable :
              /\ NeighboursOf(r, s) \subseteq Playable
              /\ s \notin NeighboursOf(r, s)
              /\ EntriesOf(r, s) = Cardinality(NeighboursOf(r, s))
              /\ \A t \in NeighboursOf(r, s) : s \in NeighboursOf(r, t)
        /\ \A s \in AllSquares \ Playable :
              \A d \in 0 .. (MD_NB - 1) : moveTable(r, s, d) = 0
        /\ ~r.hasObliqueLines =>
              \A s \in Playable :
                  s % 2 = 1 => NeighboursOf(r, s) = RingNeighbours(s)
        /\ \A s \in Playable : \A l \in LinesOf(r, s) :
              \E y \in OthersOf(r, s, l) \cup {s} :
                  (OthersOf(r, s, l) \cup {s}) \ {y} \subseteq NeighboursOf(r, y)

(* A piece has just been moved from a corner square of a board without     *)
(* oblique lines to one of its two ring neighbours                          *)
C36_Witness ==
    /\ ~rule.hasObliqueLines
    /\ last.op = "do_move" /\ last.ret = TRUE
    /\ type_of(last.arg) = MOVETYPE_MOVE
    /\ from_sq(last.arg) % 2 = 1
    /\ to_sq(last.arg) \in RingNeighbours(from_sq(last.arg))
    /\ snap.board[from_sq(last.arg)] # NO_PIECE
    /\ pos.board[from_sq(last.arg)] = NO_PIECE
    /\ pos.board[to_sq(last.arg)] = snap.board[from_sq(last.arg)]

(* C37: generate<LEGAL> leaves the position as it found it: board, piece   *)
(* counts, pieces still to remove, phase, action, side to move,            *)
(* currentSquare and key are after the call what they were before it, in    *)
(* every phase and action; in Moving with action Select the action is       *)
(* still Select afterwards.                                                 *)
C37_GenerateReadOnly ==
    last.op = "generate" =>
        /\ pos.board = snap.board
        /\ pos.pieceCountInHand = snap.pieceCountInHand
        /\ pos.pieceCountOnBoard = snap.pieceCountOnBoard
        /\ pos.pieceCountNeedRemove = snap.pieceCountNeedRemove
        /\ pos.phase = snap.phase
        /\ pos.action = snap.action
        /\ pos.sideToMove = snap.sideToMove
        /\ pos.currentSquare = snap.currentSquare
        /\ Key(pos) = Key(snap)
        /\ (snap.phase = PHASE_MOVING /\ snap.action = ACTION_SELECT)
               => pos.action = ACTION_SELECT

(* C38: a game that is not over can go on.  In every reachable state with  *)
(* phase other than GameOver generate<LEGAL> lists at least one move; with  *)
(* action Remove and pieces still to remove, remove_piece accepts some      *)
(* square of the opponent; with action Place in Placing the side to move    *)
(* has a piece in hand and some playable square is empty and not banned.    *)
C38_NoDeadlock ==
    pos.phase # PHASE_GAMEOVER =>
        /\ \A table \in PriorityTables(rule) :
              generate(pos, table).moves # << >>
        /\ (pos.action = ACTION_REMOVE /\ pos.pieceCountNeedRemove > 0) =>
              \E s \in Playable :
                  /\ color_on(pos, s) = Opp(pos.sideToMove)
                  /\ remove_piece(pos, s).ret
        /\ (pos.action = ACTION_PLACE /\ pos.phase = PHASE_PLACING) =>
              /\ pos.pieceCountInHand[pos.sideToMove] > 0
              /\ \E s \in Playable : pos.board[s] = NO_PIECE

(* The opponent of the mover has been left without a move under a rule     *)
(* that passes the turn back instead of ending the game: the game goes on   *)
(* with the mover, who has a move                                           *)
C38_Witness ==
    /\ ~rule.isLoseButNotChangeSideWhenNoWay
    /\ last.op = "do_move" /\ last.ret = TRUE
    /\ pos.phase = PHASE_MOVING /\ pos.action = ACTION_SELECT
    /\ pos.sideToMove = snap.sideToMove
    /\ Blocked(pos, Opp(pos.sideToMove))
    /\ generate(pos, movePriorityTable).moves # << >>

(* C39: while the game is not over, the action is Remove exactly when       *)
(* pieces remain to be removed; and the number of pieces to remove is       *)
(* always between 0 and 3, the range of the two top bits of the key.        *)
C39_RemoveIffPending ==
    /\ pos.phase # PHASE_GAMEOVER =>
          (pos.action = ACTION_REMOVE <=> pos.pieceCountNeedRemove > 0)
    /\ pos.pieceCountNeedRemove \in 0 .. 3

(* After the first of several removals the mover still has to remove *)
C39_Witness ==
    /\ last.op = "do_move" /\ last.ret = TRUE
    /\ type_of(last.arg) = MOVETYPE_REMOVE
    /\ pos.phase # PHASE_GAMEOVER
    /\ snap.pieceCountNeedRemove = 2
    /\ pos.pieceCountNeedRemove = 1
    /\ pos.action = ACTION_REMOVE
    /\ pos.sideToMove = snap.sideToMove

(***************************************************************************)
(* Null moves.  do_null_move and undo_null_move have no caller in the      *)
(* repository; the specification NullMoveSpec adds them to the operations   *)
(* of Spec.                                                                 *)
(***************************************************************************)
(* void Position::do_null_move(StateInfo &newSt): newSt receives a copy of *)
(* the whole current StateInfo and becomes the current one                  *)
do_null_move(p) ==
    [p EXCEPT !.st = Append(@, [Top(p) EXCEPT !.key = XorSide(@),
                                              !.rule50 = @ + 1,
                                              !.pliesFromNull = 0,
                                              !.repetition = 0]),
              !.sideToMove = Opp(@)]

(* void Position::undo_null_move() *)
undo_null_move(p) ==
    [p EXCEPT !.st = SubSeq(@, 1, Len(@) - 1),
              !.sideToMove = Opp(@)]

DoNullMove ==
    /\ input.setup = << >>
    /\ depth < MaxDepth
    /\ pos' = do_null_move(pos)
    /\ last' = Call("do_null_move", 0, TRUE)
    /\ snap' = pos
    /\ depth' = depth + 1
    /\ UNCHANGED <<rule, input>>

(* undo_null_move() right after the do_null_move() it takes back *)
UndoNullMove ==
    /\ last.op = "do_null_move"
    /\ pos' = undo_null_move(pos)
    /\ last' = Call("undo_null_move", 0, TRUE)
    /\ UNCHANGED <<rule, input, snap, depth>>

NullMoveNext ==
    \/ Next
    \/ DoNullMove
    \/ UndoNullMove

NullMoveSpec == Init /\ [][NullMoveNext]_vars

(* C40: in every reachable state, null moves included, the cached colour   *)
(* `them' is the opposite of sideToMove, and a removal that succeeds takes  *)
(* its piece from the count and the occupancy set of the side that is not   *)
(* to move.                                                                 *)
C40_ThemIsOpponent ==
    /\ pos.them = Opp(pos.sideToMove)
    /\ \A s \in input.squares :
          With(remove_piece(pos, s), LAMBDA r :
              r.ret =>
                  /\ r.pos.pieceCountOnBoard[Opp(pos.sideToMove)]
                        = pos.pieceCountOnBoard[Opp(pos.sideToMove)] - 1
                  /\ s \notin r.pos.byTypeBB[Opp(pos.sideToMove)])

====
